---- MODULE Spec2Model ----
(***************************************************************************)
(* CC-MCP: the hierarchical context store (context_store.py) and the       *)
(* session manager (session_manager.py).                                   *)
(*                                                                         *)
(* A store is a record of its three tiers.  Its methods are operators from *)
(* a store (and the method's arguments) to the store the method leaves     *)
(* behind, so that the same operators serve the store on its own and the   *)
(* stores a session manager keeps.                                         *)
(***************************************************************************)
EXTENDS Integers, Sequences, FiniteSets, TLC

(***************************************************************************)
(* Bounds of the model.                                                    *)
(***************************************************************************)
\* operations on the store in the specification Spec
MaxOps == 3
\* store_message calls in the specification SpecTurn
MaxCalls == 8
\* the UUIDs uuid4 can draw in the specification SpecSessions
NumUuids == 4
\* operations on the manager in the specification SpecSessions
MaxSessionOps == 2
\* operations on the engine in the specification SpecKeywords
MaxExtracts == 3
\* the writes to the store the prompt is synthesized from
MaxPromptOps == 3

(***************************************************************************)
(* Optional values: None is the empty tuple, a present value a 1-tuple.    *)
(***************************************************************************)
None == <<>>
Some(x) == <<x>>

(***************************************************************************)
(* Time.  An instant has a whole-second part and a microsecond part.       *)
(* datetime.now() is read off a clock that moves on with every read; the   *)
(* instants it yields alternate between a zero and a non-zero microsecond  *)
(* part, the two cases isoformat() tells apart.                            *)
(***************************************************************************)
now(c) == [sec |-> c \div 2, usec |-> c % 2]

\* isoformat(timespec="seconds"): the microseconds are never printed
Seconds_isoformat(t) == <<t.sec>>

\* datetime.isoformat(): the microseconds are printed only when non-zero.
\* The text is modelled by its numeric components.
isoformat(t) == IF t.usec = 0 THEN <<t.sec>> ELSE <<t.sec, t.usec>>

\* datetime.fromisoformat() accepts the text with or without microseconds
\* and raises ValueError on anything else.
ValidIso(chars) == Len(chars) \in {1, 2}
fromisoformat(chars) ==
    [sec |-> chars[1], usec |-> IF Len(chars) = 2 THEN chars[2] ELSE 0]

(***************************************************************************)
(* The data classes and the store.                                         *)
(***************************************************************************)
Message(content, role, timestamp, intent_labels) ==
    [content |-> content, role |-> role, timestamp |-> timestamp,
     intent_labels |-> intent_labels]

ContextItem(content, keywords, timestamp, intent_labels) ==
    [content |-> content, keywords |-> keywords, timestamp |-> timestamp,
     intent_labels |-> intent_labels]

max_turn_context == 6

\* HierarchicalContextStore.__init__
HierarchicalContextStore ==
    [core_context |-> None, evolving_context |-> <<>>, turn_context |-> <<>>]

\* "X" in intent_labels
In(label, intent_labels) ==
    \E i \in 1..Len(intent_labels) : intent_labels[i] = label

\* turn_context[-max_turn_context:] when the list is too long
KeepFirst_trim_turn_context(turn_context) ==
    IF Len(turn_context) > max_turn_context
    THEN SubSeq(turn_context, 1, max_turn_context)
    ELSE turn_context

_trim_turn_context(turn_context) ==
    IF Len(turn_context) > max_turn_context
    THEN SubSeq(turn_context, Len(turn_context) - max_turn_context + 1,
                Len(turn_context))
    ELSE turn_context

\* the routing without the check of the role
AnyRole_RoutesToCore(intent_labels, role) ==
    In("PROBLEM_DEFINITION", intent_labels)

\* role == "user" and "PROBLEM_DEFINITION" in intent_labels
RoutesToCore(intent_labels, role) ==
    role = "user" /\ In("PROBLEM_DEFINITION", intent_labels)

\* every user message that is not a problem definition taken as a refinement
Else_RoutesToEvolving(intent_labels, role) ==
    role = "user" /\ ~In("PROBLEM_DEFINITION", intent_labels)

\* role == "user" and ("CONSTRAINT_ADDITION" in ... or "REFINEMENT" in ...)
RoutesToEvolving(intent_labels, role) ==
    role = "user" /\ (In("CONSTRAINT_ADDITION", intent_labels)
                      \/ In("REFINEMENT", intent_labels))

\* keywords or []   (keywords is None or a list)
KeywordsOrEmpty(keywords) == IF keywords = None THEN <<>> ELSE keywords[1]

\* The number of datetime.now() reads of one store_message call.
ClockReads(intent_labels, role) ==
    1 + (IF RoutesToCore(intent_labels, role) THEN 1 ELSE 0)
      + (IF RoutesToEvolving(intent_labels, role) THEN 1 ELSE 0)

\* a core context that is set once and then kept
KeepFirst_NewCore(s, c, content, intent_labels, role, keywords) ==
    IF RoutesToCore(intent_labels, role) /\ s.core_context = None
    THEN Some(ContextItem(content, KeywordsOrEmpty(keywords), now(c + 1),
                          intent_labels))
    ELSE s.core_context

\* store_message, the core tier: replaced by a user's problem definition
NewCore(s, c, content, intent_labels, role, keywords) ==
    IF RoutesToCore(intent_labels, role)
    THEN Some(ContextItem(content, KeywordsOrEmpty(keywords), now(c + 1),
                          intent_labels))
    ELSE s.core_context

\* one item appended per matching label
PerLabel_NewEvolving(s, c, content, intent_labels, role, keywords) ==
    LET item == ContextItem(content, KeywordsOrEmpty(keywords), now(c + 1),
                            intent_labels)
        one == IF role = "user" /\ In("CONSTRAINT_ADDITION", intent_labels)
               THEN Append(s.evolving_context, item)
               ELSE s.evolving_context
    IN IF role = "user" /\ In("REFINEMENT", intent_labels)
       THEN Append(one, item) ELSE one

\* store_message, the evolving tier: one item appended for a user's
\* constraint or refinement; c is the clock after the reads before it
\* an evolving context that keeps one item per content: a message whose
\* content is already there replaces that item
Dedup_NewEvolving(s, c, content, intent_labels, role, keywords) ==
    IF RoutesToEvolving(intent_labels, role)
    THEN IF \E i \in DOMAIN s.evolving_context :
                s.evolving_context[i].content = content
         THEN [i \in DOMAIN s.evolving_context |->
                  IF s.evolving_context[i].content = content
                  THEN ContextItem(content, KeywordsOrEmpty(keywords),
                                   now(c + 1), intent_labels)
                  ELSE s.evolving_context[i]]
         ELSE Append(s.evolving_context,
                     ContextItem(content, KeywordsOrEmpty(keywords),
                                 now(c + 1), intent_labels))
    ELSE s.evolving_context

NewEvolving(s, c, content, intent_labels, role, keywords) ==
    IF RoutesToEvolving(intent_labels, role)
    THEN Append(s.evolving_context,
                ContextItem(content, KeywordsOrEmpty(keywords), now(c + 1),
                            intent_labels))
    ELSE s.evolving_context

\* store_message on store s, entered when the clock shows c
store_message(s, c, content, intent_labels, role, keywords) ==
    LET message == Message(content, role, now(c), intent_labels)
        c2 == IF RoutesToCore(intent_labels, role) THEN c + 1 ELSE c
    IN [turn_context |-> _trim_turn_context(Append(s.turn_context, message)),
        core_context |->
            NewCore(s, c, content, intent_labels, role, keywords),
        evolving_context |->
            NewEvolving(s, c2, content, intent_labels, role, keywords)]

\* clear_all that keeps the core problem
KeepCore_clear_all(s) ==
    [s EXCEPT !.evolving_context = <<>>, !.turn_context = <<>>]

\* clear_all
clear_all(s) ==
    [core_context |-> None, evolving_context |-> <<>>, turn_context |-> <<>>]

(***************************************************************************)
(* JSON.  A JSON value is a record tagged with its type; text that is not  *)
(* JSON at all is tagged "invalid".  The contents, roles, keyword lists    *)
(* and label lists of items pass through json.dumps / json.loads as they   *)
(* are and are kept untagged; timestamps, items, tiers and the top level,  *)
(* whose type import_state depends on, are tagged.                         *)
(***************************************************************************)
NotJson == [t |-> "invalid"]
JNull == [t |-> "null"]
JNumber(n) == [t |-> "number", n |-> n]
JStr(chars) == [t |-> "string", chars |-> chars]
JList(items) == [t |-> "list", items |-> items]
JObj(fields) == [t |-> "object", fields |-> fields]

\* Python's truth value of a parsed JSON value
Truthy(v) ==
    CASE v.t = "null" -> FALSE
      [] v.t = "number" -> v.n # 0
      [] v.t = "string" -> Len(v.chars) # 0
      [] v.t = "list" -> Len(v.items) # 0
      [] v.t = "object" -> DOMAIN v.fields # {}

\* `for x in v`: a list yields its items, a dict its keys and a str its
\* characters (both strings); None and numbers raise TypeError.
Iterable(v) == v.t \in {"list", "object", "string"}
Elements(v) ==
    CASE v.t = "list" -> v.items
      [] v.t = "object" ->
            [i \in 1..Cardinality(DOMAIN v.fields) |-> JStr(<<0>>)]
      [] v.t = "string" -> [i \in 1..Len(v.chars) |-> JStr(<<0>>)]

\* the dict export_state writes for a ContextItem
ItemToJson(item) ==
    JObj([content |-> item.content, keywords |-> item.keywords,
          timestamp |-> JStr(isoformat(item.timestamp)),
          intent_labels |-> item.intent_labels])

\* the dict export_state writes for a Message
MessageToJson(msg) ==
    JObj([content |-> msg.content, role |-> msg.role,
          timestamp |-> JStr(isoformat(msg.timestamp)),
          intent_labels |-> msg.intent_labels])

\* export_state: the JSON text, as the value json.loads reads back from it
export_state(s) ==
    JObj([core_context |->
              IF s.core_context = None THEN JNull
              ELSE ItemToJson(s.core_context[1]),
          evolving_context |->
              JList([i \in 1..Len(s.evolving_context) |->
                        ItemToJson(s.evolving_context[i])]),
          turn_context |->
              JList([i \in 1..Len(s.turn_context) |->
                        MessageToJson(s.turn_context[i])])])

(***************************************************************************)
(* import_state.  Building an item from its JSON evaluates, in this order, *)
(* v["content"], v[second] (keywords or role), v["timestamp"],             *)
(* fromisoformat of it, and v["intent_labels"].  A missing key is a        *)
(* KeyError and an unparsable timestamp a ValueError, which import_state   *)
(* catches and answers False; subscripting something that is not a dict    *)
(* and a timestamp that is not a string are TypeErrors, which it does not  *)
(* catch ("raise").                                                        *)
(***************************************************************************)
ParseItem(v, second) ==
    IF v.t # "object" THEN "raise"
    ELSE IF "content" \notin DOMAIN v.fields THEN "False"
    ELSE IF second \notin DOMAIN v.fields THEN "False"
    ELSE IF "timestamp" \notin DOMAIN v.fields THEN "False"
    ELSE IF v.fields.timestamp.t # "string" THEN "raise"
    ELSE IF ~ValidIso(v.fields.timestamp.chars) THEN "False"
    ELSE IF "intent_labels" \notin DOMAIN v.fields THEN "False"
    ELSE "ok"

ItemFromJson(v) ==
    ContextItem(v.fields.content, v.fields.keywords,
                fromisoformat(v.fields.timestamp.chars),
                v.fields.intent_labels)

MessageFromJson(v) ==
    Message(v.fields.content, v.fields.role,
            fromisoformat(v.fields.timestamp.chars),
            v.fields.intent_labels)

\* The index of the first element of items that does not parse, 0 if all do.
FirstBad(items, second) ==
    IF \A i \in 1..Len(items) : ParseItem(items[i], second) = "ok" THEN 0
    ELSE CHOOSE i \in 1..Len(items) :
            /\ ParseItem(items[i], second) # "ok"
            /\ \A j \in 1..(i - 1) : ParseItem(items[j], second) = "ok"

\* One `for ... in data: list.append(...)` loop of import_state, started on
\* an empty list: how it ends and the list it has built by then.  The loop
\* over evolving_context (second = "keywords") builds ContextItems, the one
\* over turn_context (second = "role") Messages.
ImportLoop(data, second) ==
    IF ~Iterable(data) THEN [status |-> "raise", built |-> <<>>]
    ELSE LET items == Elements(data)
             bad == FirstBad(items, second)
             n == IF bad = 0 THEN Len(items) ELSE bad - 1
         IN [status |-> IF bad = 0 THEN "ok"
                        ELSE ParseItem(items[bad], second),
             built |-> [i \in 1..n |->
                          IF second = "keywords" THEN ItemFromJson(items[i])
                          ELSE MessageFromJson(items[i])]]

\* state.get(key, default)
Get(fields, key, default) ==
    IF key \in DOMAIN fields THEN fields[key] ELSE default

\* import_state without the else branch of the core tier: a snapshot
\* without a core problem leaves the one the store has
Keeping_import_state(s, json_state) ==
    IF json_state.t = "invalid" THEN [result |-> "False", store |-> s]
    ELSE IF json_state.t # "object" THEN [result |-> "raise", store |-> s]
    ELSE
    LET state == json_state.fields
        core_data == Get(state, "core_context", JNull)
        coreStatus == IF Truthy(core_data)
                      THEN ParseItem(core_data, "keywords") ELSE "ok"
        s1 == [s EXCEPT !.core_context =
                            IF Truthy(core_data)
                            THEN Some(ItemFromJson(core_data))
                            ELSE s.core_context,
                        !.evolving_context = <<>>]
        evolving == ImportLoop(Get(state, "evolving_context", JList(<<>>)),
                               "keywords")
        s2 == [s1 EXCEPT !.evolving_context = evolving.built]
        s3 == [s2 EXCEPT !.turn_context = <<>>]
        turn == ImportLoop(Get(state, "turn_context", JList(<<>>)),
                           "role")
        s4 == [s3 EXCEPT !.turn_context = turn.built]
    IN IF coreStatus # "ok" THEN [result |-> coreStatus, store |-> s]
       ELSE IF evolving.status # "ok"
       THEN [result |-> evolving.status, store |-> s2]
       ELSE IF turn.status # "ok"
       THEN [result |-> turn.status, store |-> s4]
       ELSE [result |-> "True", store |-> s4]

\* import_state: what it answers ("True", "False", or "raise" for an
\* exception that leaves the method) and the store it leaves behind.
import_state(s, json_state) ==
    IF json_state.t = "invalid" THEN [result |-> "False", store |-> s]
    ELSE IF json_state.t # "object" THEN [result |-> "raise", store |-> s]
    ELSE
    LET state == json_state.fields
        core_data == Get(state, "core_context", JNull)
        coreStatus == IF Truthy(core_data)
                      THEN ParseItem(core_data, "keywords") ELSE "ok"
        s1 == [s EXCEPT !.core_context =
                            IF Truthy(core_data)
                            THEN Some(ItemFromJson(core_data)) ELSE None,
                        !.evolving_context = <<>>]
        evolving == ImportLoop(Get(state, "evolving_context", JList(<<>>)),
                               "keywords")
        s2 == [s1 EXCEPT !.evolving_context = evolving.built]
        s3 == [s2 EXCEPT !.turn_context = <<>>]
        turn == ImportLoop(Get(state, "turn_context", JList(<<>>)),
                           "role")
        s4 == [s3 EXCEPT !.turn_context = turn.built]
    IN IF coreStatus # "ok" THEN [result |-> coreStatus, store |-> s]
       ELSE IF evolving.status # "ok"
       THEN [result |-> evolving.status, store |-> s2]
       ELSE IF turn.status # "ok"
       THEN [result |-> turn.status, store |-> s4]
       ELSE [result |-> "True", store |-> s4]

(***************************************************************************)
(* The read-only views.                                                    *)
(***************************************************************************)
\* the concatenation of the keyword lists of the items
RECURSIVE ExtendAll(_)
ExtendAll(items) ==
    IF items = <<>> THEN <<>>
    ELSE items[1].keywords \o ExtendAll(Tail(items))

\* turn_context[-4:]
LastFour(turn_context) ==
    IF Len(turn_context) > 4
    THEN SubSeq(turn_context, Len(turn_context) - 3, Len(turn_context))
    ELSE turn_context

(***************************************************************************)
(* Text.  A str of the program is a string of the model; where the program *)
(* looks into a str (strip, split, join, format) the model looks at its    *)
(* characters: Chars gives a str as the sequence of its pieces, " " a      *)
(* space, "\n" a line feed, every other piece a run of characters without  *)
(* white space.                                                            *)
(***************************************************************************)
Chars(content) ==
    CASE content = "" -> <<>>
      [] content = " " -> <<" ">>
      [] content = "l1\nl2" -> <<"l1", "\n", "l2">>
      [] OTHER -> <<content>>

\* the characters str.strip() removes
Whitespace == {" ", "\n"}

RECURSIVE lstrip(_)
lstrip(chars) ==
    IF chars # <<>> /\ chars[1] \in Whitespace THEN lstrip(Tail(chars))
    ELSE chars

RECURSIVE rstrip(_)
rstrip(chars) ==
    IF chars # <<>> /\ chars[Len(chars)] \in Whitespace
    THEN rstrip(SubSeq(chars, 1, Len(chars) - 1))
    ELSE chars

\* str.strip()
strip(chars) == rstrip(lstrip(chars))

\* str.split("\n"): the lines of a text, one for the empty text
RECURSIVE split(_)
split(chars) ==
    IF \A i \in DOMAIN chars : chars[i] # "\n" THEN <<chars>>
    ELSE LET n == CHOOSE i \in DOMAIN chars :
                      /\ chars[i] = "\n"
                      /\ \A j \in 1..(i - 1) : chars[j] # "\n"
         IN <<SubSeq(chars, 1, n - 1)>>
                \o split(SubSeq(chars, n + 1, Len(chars)))

\* separator.join(texts)
RECURSIVE join(_, _)
join(separator, texts) ==
    IF texts = <<>> THEN <<>>
    ELSE IF Len(texts) = 1 THEN texts[1]
    ELSE texts[1] \o separator \o join(separator, Tail(texts))

\* recent_conversation += f"{msg.role}: {msg.content}\n" for every message
RECURSIVE FormatMessages(_)
FormatMessages(messages) ==
    IF messages = <<>> THEN <<>>
    ELSE Chars(messages[1].role) \o <<":", " ">>
             \o Chars(messages[1].content) \o <<"\n">>
             \o FormatMessages(Tail(messages))

\* a summary whose recent_conversation is not stripped
Raw_get_context_summary(s) ==
    [core_problem |-> IF s.core_context = None THEN None
                      ELSE Some(s.core_context[1].content),
     evolving_items |-> [i \in 1..Len(s.evolving_context) |->
                            s.evolving_context[i].content],
     recent_conversation |-> FormatMessages(LastFour(s.turn_context)),
     core_keywords |-> IF s.core_context = None THEN <<>>
                       ELSE s.core_context[1].keywords,
     evolving_keywords |-> ExtendAll(s.evolving_context)]

\* get_context_summary; recent_conversation is the text of the last four
\* messages, stripped
get_context_summary(s) ==
    [core_problem |-> IF s.core_context = None THEN None
                      ELSE Some(s.core_context[1].content),
     evolving_items |-> [i \in 1..Len(s.evolving_context) |->
                            s.evolving_context[i].content],
     recent_conversation |->
        strip(FormatMessages(LastFour(s.turn_context))),
     core_keywords |-> IF s.core_context = None THEN <<>>
                       ELSE s.core_context[1].keywords,
     evolving_keywords |-> ExtendAll(s.evolving_context)]

\* get_stats
get_stats(s) ==
    [has_core_problem |-> s.core_context # None,
     evolving_items_count |-> Len(s.evolving_context),
     recent_messages_count |-> Len(s.turn_context),
     total_keywords |-> Len(get_context_summary(s).core_keywords)
                        + Len(get_context_summary(s).evolving_keywords)]

(***************************************************************************)
(* The keyword extraction engine (keyword_extraction.py).  A text is the   *)
(* sequence of its words as the caller wrote them; " " is a run of white   *)
(* space.  A score tf * idf is kept as the numbers it is made of:          *)
(* tf = <<count, length>> stands for count / length and idf = <<n, d>>     *)
(* for math.log(n / d), so that scores are compared exactly.               *)
(***************************************************************************)
\* str.lower() of a word
lower(w) == IF w = "API" THEN "api" ELSE w

\* the English and Japanese stop words, as far as the texts have them
_stop_words == {"the"}

\* words the regular expression finds no letter in
NoLetters == {" ", "42"}

\* words of fewer than two characters
OneCharacter == {"x"}

\* the condition of the comprehension of _tokenize, on a lowered word
KeepToken(w) ==
    /\ w \notin NoLetters
    /\ w \notin OneCharacter
    /\ w \notin _stop_words

\* _tokenize: lower, find the runs of letters, drop the stop words and the
\* words of one character
_tokenize(text) ==
    SelectSeq([i \in DOMAIN text |-> lower(text[i])], KeepToken)

\* text.strip() is empty
Blank(text) == \A i \in DOMAIN text : text[i] = " "

\* the keys of Counter(tokens), in the order of their first occurrence
RECURSIVE Unique(_)
Unique(tokens) ==
    IF tokens = <<>> THEN <<>>
    ELSE LET rest == Unique(SubSeq(tokens, 1, Len(tokens) - 1))
             w == tokens[Len(tokens)]
         IN IF \E i \in DOMAIN rest : rest[i] = w THEN rest
            ELSE Append(rest, w)

\* _calculate_tf: count / total_tokens of every token
_calculate_tf(tokens) ==
    [w \in {tokens[i] : i \in DOMAIN tokens} |->
        <<Cardinality({i \in DOMAIN tokens : tokens[i] = w}), Len(tokens)>>]

\* a new KeywordExtractionEngine
KeywordExtractionEngine ==
    [_document_corpus |-> <<>>,
     _document_frequency |-> [w \in {} |-> 0],
     _total_documents |-> 0]

\* self._document_frequency.get(token, 0)
DocFreq(e, token) ==
    IF token \in DOMAIN e._document_frequency
    THEN e._document_frequency[token] ELSE 0

\* an idf with add-one smoothing, log((total + 1) / doc_freq)
Smoothed__calculate_idf(e, token) ==
    IF e._total_documents = 0 \/ DocFreq(e, token) = 0 THEN <<1, 1>>
    ELSE <<e._total_documents + 1, DocFreq(e, token)>>

\* _calculate_idf: 0.0 without documents or for an unseen token, else
\* log(total_documents / doc_freq)
_calculate_idf(e, token) ==
    IF e._total_documents = 0 \/ DocFreq(e, token) = 0 THEN <<1, 1>>
    ELSE <<e._total_documents, DocFreq(e, token)>>

\* an update that counts every occurrence of a token
PerOccurrence__update_corpus(e, text) ==
    LET tokens == _tokenize(text)
        unique_tokens == {tokens[i] : i \in DOMAIN tokens}
    IN [_document_corpus |-> Append(e._document_corpus, text),
        _document_frequency |->
            [w \in DOMAIN e._document_frequency \cup unique_tokens |->
                DocFreq(e, w)
                    + Cardinality({i \in DOMAIN tokens : tokens[i] = w})],
        _total_documents |-> e._total_documents + 1]

\* _update_corpus: the text is appended, the documents are counted and the
\* frequency of every distinct token of the text goes up by one
_update_corpus(e, text) ==
    LET unique_tokens == {_tokenize(text)[i] : i \in DOMAIN _tokenize(text)}
    IN [_document_corpus |-> Append(e._document_corpus, text),
        _document_frequency |->
            [w \in DOMAIN e._document_frequency \cup unique_tokens |->
                IF w \in unique_tokens THEN DocFreq(e, w) + 1
                ELSE DocFreq(e, w)],
        _total_documents |-> e._total_documents + 1]

RECURSIVE Pow(_, _)
Pow(x, n) == IF n = 0 THEN 1 ELSE x * Pow(x, n - 1)

\* score > 0: a positive tf and a quotient n / d above 1
Positive(score) == score.tf[1] > 0 /\ score.idf[1] > score.idf[2]

\* a > b for two scores of one text: c * log(n / d) grows with (n / d)^c
Greater(a, b) ==
    Pow(a.idf[1], a.tf[1]) * Pow(b.idf[2], b.tf[1])
        > Pow(b.idf[1], b.tf[1]) * Pow(a.idf[2], a.tf[1])

\* sorted(items, key=score, reverse=True): a stable sort, items of equal
\* score keep the order they came in
RECURSIVE SortedReverse(_)
SortedReverse(items) ==
    IF items = <<>> THEN <<>>
    ELSE LET rest == SortedReverse(SubSeq(items, 1, Len(items) - 1))
             x == items[Len(items)]
             ahead == {i \in DOMAIN rest : ~Greater(x.score, rest[i].score)}
             k == IF ahead = {} THEN 0
                  ELSE CHOOSE i \in ahead : \A j \in ahead : j <= i
         IN SubSeq(rest, 1, k) \o <<x>> \o SubSeq(rest, k + 1, Len(rest))

\* a scoring that takes the first top_k tokens of the text as they come
Unsorted_ScoreKeywords(e, text, top_k) ==
    LET tokens == _tokenize(text)
        tf_scores == _calculate_tf(tokens)
        tfidf_scores ==
            [i \in DOMAIN Unique(tokens) |->
                [keyword |-> Unique(tokens)[i],
                 score |-> [tf |-> tf_scores[Unique(tokens)[i]],
                            idf |-> _calculate_idf(e, Unique(tokens)[i])]]]
        sorted_keywords ==
            SubSeq(tfidf_scores, 1,
                   IF top_k < Len(tfidf_scores) THEN top_k
                   ELSE Len(tfidf_scores))
    IN SelectSeq(sorted_keywords, LAMBDA kw : Positive(kw.score))

\* the scoring of extract_keywords on the corpus e: tf * idf of every
\* token, the top_k highest, and of these the ones above 0
ScoreKeywords(e, text, top_k) ==
    LET tokens == _tokenize(text)
        tf_scores == _calculate_tf(tokens)
        tfidf_scores ==
            [i \in DOMAIN Unique(tokens) |->
                [keyword |-> Unique(tokens)[i],
                 score |-> [tf |-> tf_scores[Unique(tokens)[i]],
                            idf |-> _calculate_idf(e, Unique(tokens)[i])]]]
        sorted_keywords ==
            SubSeq(SortedReverse(tfidf_scores), 1,
                   IF top_k < Len(tfidf_scores) THEN top_k
                   ELSE Len(tfidf_scores))
    IN SelectSeq(sorted_keywords, LAMBDA kw : Positive(kw.score))

\* an engine that keeps the counts of its last document only
Windowed_extract_keywords(e, text, top_k) ==
    IF Blank(text) THEN [engine |-> e, result |-> <<>>]
    ELSE [engine |-> _update_corpus(KeywordExtractionEngine, text),
          result |-> <<>>]

\* extract_keywords: the engine after the call and the list it returns
extract_keywords(e, text, top_k) ==
    IF Blank(text) THEN [engine |-> e, result |-> <<>>]
    ELSE IF _tokenize(text) = <<>>
    THEN [engine |-> _update_corpus(e, text), result |-> <<>>]
    ELSE [engine |-> _update_corpus(e, text),
          result |-> ScoreKeywords(_update_corpus(e, text), text, top_k)]

\* reset_corpus that forgets the document frequencies
Partial_reset_corpus(e) ==
    [e EXCEPT !._document_corpus = <<>>, !._total_documents = 0]

\* reset_corpus
reset_corpus(e) == KeywordExtractionEngine

\* sum(len(self._tokenize(doc)) for doc in self._document_corpus)
RECURSIVE TokensIn(_)
TokensIn(corpus) ==
    IF corpus = <<>> THEN 0
    ELSE Len(_tokenize(corpus[1])) + TokensIn(Tail(corpus))

\* get_corpus_stats; avg_document_length is kept as the two numbers of its
\* quotient
get_corpus_stats(e) ==
    [total_documents |-> e._total_documents,
     unique_terms |-> Cardinality(DOMAIN e._document_frequency),
     avg_document_length |->
        <<TokensIn(e._document_corpus),
          IF e._total_documents > 1 THEN e._total_documents ELSE 1>>]

(***************************************************************************)
(* Prompt synthesis (prompt_synthesis.py) and the keyword texts of the     *)
(* store it uses.  The fixed texts of the program are pieces of their own; *)
(* the Japanese ones are written here by what they say.                    *)
(***************************************************************************)
\* [kw["keyword"] for kw in keywords[:n]]
FirstKeywords(keywords, n) ==
    [i \in 1..(IF Len(keywords) < n THEN Len(keywords) ELSE n) |->
        keywords[i].keyword]

\* ', '.join(words)
CommaJoin(words) ==
    join(<<",", " ">>, [i \in DOMAIN words |-> Chars(words[i])])

\* get_core_keywords_text: the first five keywords of the core item
get_core_keywords_text(s) ==
    IF s.core_context = None \/ s.core_context[1].keywords = <<>> THEN <<>>
    ELSE <<"(core keywords):", " ">>
             \o CommaJoin(FirstKeywords(s.core_context[1].keywords, 5))

\* the first three keywords of every item, one item after the other
RECURSIVE TopThree(_)
TopThree(items) ==
    IF items = <<>> THEN <<>>
    ELSE FirstKeywords(items[1].keywords, 3) \o TopThree(Tail(items))

\* the keyword text with every keyword of every item
Every_get_evolving_keywords_text(s) ==
    LET all_keywords == FirstKeywords(ExtendAll(s.evolving_context),
                                      Len(ExtendAll(s.evolving_context)))
    IN IF all_keywords = <<>> THEN <<>>
       ELSE <<"(constraint keywords):", " ">> \o CommaJoin(all_keywords)

\* get_evolving_keywords_text: the first three keywords of every evolving
\* item, without repetitions, and of these the first eight
get_evolving_keywords_text(s) ==
    LET all_keywords == TopThree(s.evolving_context)
        unique_keywords == Unique(all_keywords)
    IN IF all_keywords = <<>> THEN <<>>
       ELSE <<"(constraint keywords):", " ">>
                \o CommaJoin(SubSeq(unique_keywords, 1,
                                    IF Len(unique_keywords) < 8
                                    THEN Len(unique_keywords) ELSE 8))

\* the texts that stand for a tier without content
NoProblemYet == <<"(no problem is defined yet)">>
NoConstraintsYet == <<"(no constraints or decisions yet)">>
DialogueStarts == <<"(this is the start of the dialogue)">>

\* a core section that is the placeholder until there are constraints too
Joint__format_core_context(s, core_problem) ==
    IF core_problem = None \/ s.evolving_context = <<>> THEN NoProblemYet
    ELSE <<"(main problem):", " ">> \o Chars(core_problem[1])

\* _format_core_context; core_problem is None or the content
_format_core_context(s, core_problem) ==
    IF core_problem = None THEN NoProblemYet
    ELSE <<"(main problem):", " ">> \o Chars(core_problem[1])
             \o (IF get_core_keywords_text(s) # <<>>
                 THEN <<"\n">> \o get_core_keywords_text(s) ELSE <<>>)

\* _format_evolving_context
_format_evolving_context(s, evolving_items) ==
    IF evolving_items = <<>> THEN NoConstraintsYet
    ELSE join(<<"\n">>, [i \in DOMAIN evolving_items |->
                            <<"-", " ">> \o Chars(evolving_items[i])])
             \o (IF get_evolving_keywords_text(s) # <<>>
                 THEN <<"\n", "\n">> \o get_evolving_keywords_text(s)
                 ELSE <<>>)

\* _format_turn_context
_format_turn_context(recent_conversation) ==
    IF strip(recent_conversation) = <<>> THEN DialogueStarts
    ELSE recent_conversation

\* PROMPT_TEMPLATE.format(...)
PROMPT_TEMPLATE(core_context, evolving_context, turn_context, current_message) ==
    <<"# Mission", "\n", "(you are an assistant ...)", "\n", "\n">>
        \o core_context
        \o <<"\n", "\n", "# Constraints", "\n", "(meet these ...)", "\n">>
        \o evolving_context
        \o <<"\n", "\n", "# Recent Conversation", "\n">>
        \o turn_context
        \o <<"\n", "\n", "# User's Current Message", "\n">>
        \o current_message

\* a synthesize_prompt that also records the message in the store
Recording_synthesize_prompt(s, current_message) ==
    [context_store |->
        [s EXCEPT !.turn_context =
            Append(@, [content |-> current_message, role |-> "user",
                       timestamp |-> now(0), intent_labels |-> <<>>])],
     result |-> <<>>]

\* synthesize_prompt: the bound store after the call and the prompt
synthesize_prompt(s, current_message) ==
    [context_store |-> s,
     result |->
        PROMPT_TEMPLATE(
            _format_core_context(s, get_context_summary(s).core_problem),
            _format_evolving_context(s,
                                     get_context_summary(s).evolving_items),
            _format_turn_context(
                get_context_summary(s).recent_conversation),
            Chars(current_message))]

\* get_context_stats: the bound store after the call and the counts, taken
\* from the summary
get_context_stats(s) ==
    [context_store |-> s,
     result |->
        [has_core_problem |-> get_context_summary(s).core_problem # None,
         evolving_items_count |-> Len(get_context_summary(s).evolving_items),
         recent_messages_count |->
            IF get_context_summary(s).recent_conversation = <<>> THEN 0
            ELSE Len(split(get_context_summary(s).recent_conversation))]]

\* create_debug_info: the bound store after the call and the record
create_debug_info(s, current_message) ==
    [context_store |-> s,
     result |->
        [input |-> [current_message |-> current_message,
                    context_summary |-> get_context_summary(s)],
         processing |->
            [core_formatted |->
                _format_core_context(s, get_context_summary(s).core_problem),
             evolving_formatted |->
                _format_evolving_context(
                    s, get_context_summary(s).evolving_items),
             turn_formatted |->
                _format_turn_context(
                    get_context_summary(s).recent_conversation)],
         output |->
            [synthesized_prompt |->
                synthesize_prompt(s, current_message).result,
             prompt_length |->
                Len(synthesize_prompt(s, current_message).result),
             stats |-> get_context_stats(s).result]]]

(***************************************************************************)
(* The state.                                                              *)
(*   store      the HierarchicalContextStore under test                    *)
(*   clock      the number of datetime.now() reads so far                  *)
(*   calls      the store_message calls made, in order, while the store    *)
(*              has seen nothing but store_message since its construction  *)
(*              (pure)                                                     *)
(*   prev       the store as it was before the last operation              *)
(*   last       the last operation, its arguments and what it answered     *)
(*   ops        the number of operations so far                            *)
(* and of a SessionManager                                                 *)
(*   _sessions  the store of every registered session id                   *)
(*   files      the persistence directory: the snapshot in <id>.json       *)
(*   used       the UUIDs that exist, here or elsewhere                    *)
(*   known      the ids this manager has loaded or returned so far         *)
(*   before     the manager as it was before the last operation            *)
(* of the KeywordExtractionEngine the server shares between all sessions   *)
(*   engine     its corpus, document frequencies and document count        *)
(* and of the event loop the server's handlers run on                      *)
(*   tasks      the process_user_message requests: arguments, position,    *)
(*              the results of the two coroutines of its gather, what the  *)
(*              call returned, and whether its session was registered      *)
(*              when it returned                                           *)
(*   running    the callback that is executing, None between callbacks     *)
(*   held       the summary a reader was handed, with what it refers to    *)
(*   history    per session, the store as its construction and then every  *)
(*              completed store_message left it, in order                  *)
(*   heap       per session, the list objects its core items were given    *)
(*              as keywords, the last one being the current one            *)
(*   discarded  the stores of the sessions that were ended, which the      *)
(*              handlers that looked them up still hold                    *)
(***************************************************************************)
VARIABLES store, clock, calls, pure, prev, last, ops,
          _sessions, files, used, known, before,
          engine, tasks, running, held, history, heap, discarded

storeVars == <<store, calls, pure, prev>>
managerVars == <<_sessions, files, used, known, before>>
asyncVars == <<tasks, running, held, history, heap, discarded>>
vars == <<store, clock, calls, pure, prev, last, ops,
          _sessions, files, used, known, before,
          engine, tasks, running, held, history, heap, discarded>>

(***************************************************************************)
(* The arguments the operations are tried with.                            *)
(***************************************************************************)
Contents == {"c1", "c2"}
Roles == {"user", "assistant"}
Keyword1 == [keyword |-> "k1", score |-> 1]
Keyword2 == [keyword |-> "k2", score |-> 2]
\* the messages stored: a content and the keywords extracted from it (None
\* when the caller passes none)
Payloads == {[content |-> "c1", keywords |-> None],
             [content |-> "c2", keywords |-> Some(<<Keyword1, Keyword2>>)]}
LabelLists ==
    {<<>>,
     <<"UNCLEAR">>,
     <<"QUESTION">>,
     <<"PROBLEM_DEFINITION">>,
     <<"REFINEMENT">>,
     <<"CONSTRAINT_ADDITION", "REFINEMENT">>,
     <<"PROBLEM_DEFINITION", "CONSTRAINT_ADDITION">>}

\* JSON items for the snapshots import_state is tried with
GoodItem == JObj([content |-> "c1", keywords |-> <<Keyword1>>,
                  timestamp |-> JStr(<<7, 1>>),
                  intent_labels |-> <<"PROBLEM_DEFINITION">>])
NoContentItem == JObj([keywords |-> <<>>, timestamp |-> JStr(<<7>>),
                       intent_labels |-> <<"REFINEMENT">>])
BadTimeItem == JObj([content |-> "c2", keywords |-> <<>>,
                     timestamp |-> JStr(<<>>),
                     intent_labels |-> <<"REFINEMENT">>])
NumberTimeItem == JObj([content |-> "c2", keywords |-> <<>>,
                        timestamp |-> JNumber(7),
                        intent_labels |-> <<"REFINEMENT">>])
GoodMessage == JObj([content |-> "c2", role |-> "assistant",
                     timestamp |-> JStr(<<8>>),
                     intent_labels |-> <<"UNCLEAR">>])
NoLabelsMessage == JObj([content |-> "c1", role |-> "user",
                         timestamp |-> JStr(<<8, 1>>)])

\* The snapshots import_state is tried with, besides the store's own export
Snapshots ==
    << NotJson,
       JNull,
       JList(<<>>),
       JStr(<<0>>),
       JObj([x \in {} |-> JNull]),
       JObj([core_context |-> JNull,
             turn_context |-> JList(<<GoodMessage>>)]),
       JObj([core_context |-> GoodItem,
             evolving_context |-> JList(<<GoodItem, GoodItem>>),
             turn_context |-> JList([i \in 1..(max_turn_context + 1) |->
                                        GoodMessage])]),
       JObj([core_context |-> NoContentItem,
             evolving_context |-> JList(<<GoodItem>>),
             turn_context |-> JList(<<>>)]),
       JObj([core_context |-> GoodItem,
             evolving_context |-> JList(<<GoodItem, NoContentItem>>),
             turn_context |-> JList(<<GoodMessage>>)]),
       JObj([core_context |-> GoodItem,
             evolving_context |-> JList(<<BadTimeItem>>),
             turn_context |-> JList(<<GoodMessage>>)]),
       JObj([core_context |-> JNull,
             evolving_context |-> JList(<<GoodItem>>),
             turn_context |-> JList(<<GoodMessage, NoLabelsMessage>>)]),
       JObj([core_context |-> GoodItem,
             evolving_context |-> JNull,
             turn_context |-> JList(<<>>)]),
       JObj([core_context |-> JNull,
             evolving_context |-> JList(<<JNumber(1)>>),
             turn_context |-> JList(<<>>)]),
       JObj([core_context |-> JNull,
             evolving_context |-> JList(<<GoodItem, NumberTimeItem>>),
             turn_context |-> JList(<<>>)]) >>

(***************************************************************************)
(* The session manager.  Session ids are numbers: 1..NumUuids are the      *)
(* UUIDs, 0 is a file name that is no UUID (default.json).                 *)
(***************************************************************************)
\* an id made from the number of registered sessions
Counter_uuid4 == {Cardinality(DOMAIN _sessions) + 1}

\* str(uuid.uuid4()): the values a call can return.  uuid4 is taken at its
\* contract, a value that exists nowhere else; two draws of 122 random bits
\* that coincide are outside this model.
uuid4 == (1..NumUuids) \ used

\* get_context that hands out an empty store for an id it does not find
Default_get_context(session_id) ==
    IF session_id \in DOMAIN _sessions THEN Some(_sessions[session_id])
    ELSE Some(HierarchicalContextStore)

\* get_context: the store of the session, or None
get_context(session_id) ==
    IF session_id \in DOMAIN _sessions THEN Some(_sessions[session_id])
    ELSE None

\* the elements of a set of ids, one after the other
RECURSIVE Keys(_)
Keys(ids) ==
    IF ids = {} THEN <<>>
    ELSE LET first == CHOOSE i \in ids : \A j \in ids : i <= j
         IN <<first>> \o Keys(ids \ {first})

\* list_sessions that lists the session "default" in any case
WithDefault_list_sessions(sessions) == Keys(DOMAIN sessions \cup {0})

\* list_sessions: list(self._sessions.keys()); the order of the keys, that
\* of their insertion, is not kept in the model
list_sessions(sessions) == Keys(DOMAIN sessions)

\* get_session_count: len(self._sessions)
get_session_count(sessions) == Cardinality(DOMAIN sessions)

\* the counts get_session_stats takes from the summary of the store of
\* the session (recent_messages_count counts the lines of
\* recent_conversation)
SessionStats(session_id, context_store) ==
    LET context_summary == get_context_summary(context_store)
    IN [session_id |-> session_id,
        has_core_problem |-> context_summary.core_problem # None,
        evolving_items_count |-> Len(context_summary.evolving_items),
        recent_messages_count |->
            IF context_summary.recent_conversation = <<>> THEN 0
            ELSE Len(split(context_summary.recent_conversation)),
        total_keywords |-> Len(context_summary.core_keywords)
                           + Len(context_summary.evolving_keywords)]

\* get_session_stats: None when get_context finds nothing, else the counts
get_session_stats(session_id) ==
    IF get_context(session_id) = None THEN None
    ELSE Some(SessionStats(session_id, get_context(session_id)[1]))

\* the session ids callers pass
SessionIds == 0..NumUuids

\* the snapshots the import_context tool is called with: text that is not
\* JSON, a snapshot that imports, one that fails after the core tier and
\* one item of the evolving tier have been written
ImportedSnapshots == {1, 6, 9}

\* self._sessions[session_id] = context_store
Register(sessions, session_id, context_store) ==
    [i \in DOMAIN sessions \cup {session_id} |->
        IF i = session_id THEN context_store ELSE sessions[i]]

\* del self._sessions[session_id]; os.remove(filepath)
Remove(f, session_id) == [i \in DOMAIN f \ {session_id} |-> f[i]]

\* save_session that writes nothing
Skip_save_session(sessions, dir, session_id, written) == dir

\* save_session: the directory after it; written says whether the write
\* went through (a failed write is logged and nothing else happens)
save_session(sessions, dir, session_id, written) ==
    IF session_id \in DOMAIN sessions /\ written
    THEN Register(dir, session_id, export_state(sessions[session_id]))
    ELSE dir

\* a file whose open() or read() raises (no permission, bytes that are not
\* UTF-8)
Unreadable == [t |-> "unreadable"]

\* the body of the loop of load_all_sessions for one file: the file is
\* registered when it can be read and import_state answers True on a fresh
\* store; a False is logged, and an exception of the read or of
\* import_state is caught and logged
Loads(doc) ==
    /\ doc.t # "unreadable"
    /\ import_state(HierarchicalContextStore, doc).result = "True"

\* load_all_sessions on an empty manager: every file that loads is
\* registered under the file's name with the store import_state has built
load_all_sessions(dir) ==
    [i \in {j \in DOMAIN dir : Loads(dir[j])}
        |-> import_state(HierarchicalContextStore, dir[i]).store]

\* start_session whose save_session lets the exception of a failed write
\* through: the session is registered and the caller gets no id
Raising_start_session(sessions, dir, session_id, written) ==
    [sessions |-> Register(sessions, session_id, HierarchicalContextStore),
     files |-> save_session(Register(sessions, session_id,
                                     HierarchicalContextStore),
                            dir, session_id, written),
     result |-> IF written THEN Some(session_id) ELSE None]

\* start_session with the id uuid4 has drawn: the manager's sessions and
\* the directory after it, and the id it returns
start_session(sessions, dir, session_id, written) ==
    [sessions |-> Register(sessions, session_id, HierarchicalContextStore),
     files |-> save_session(Register(sessions, session_id,
                                     HierarchicalContextStore),
                            dir, session_id, written),
     result |-> Some(session_id)]

\* end_session that forgets the session and leaves its file
KeepFile_end_session(sessions, dir, session_id) ==
    IF session_id \in DOMAIN sessions
    THEN [sessions |-> Remove(sessions, session_id), files |-> dir,
          result |-> "True"]
    ELSE [sessions |-> sessions, files |-> dir, result |-> "False"]

\* end_session: the manager's sessions and the directory after it, and
\* the flag it returns
end_session(sessions, dir, session_id) ==
    IF session_id \in DOMAIN sessions
    THEN [sessions |-> Remove(sessions, session_id),
          files |-> Remove(dir, session_id),
          result |-> "True"]
    ELSE [sessions |-> sessions, files |-> dir, result |-> "False"]

\* a snapshot of a store with content, as an earlier run has saved it
FilledSnapshot ==
    JObj([core_context |-> GoodItem,
          evolving_context |-> JList(<<GoodItem>>),
          turn_context |-> JList(<<GoodMessage>>)])

\* The persistence directories a manager is constructed over: empty; with
\* the snapshots of empty and of filled stores; with files that are not
\* JSON, that lack a key of an item, that are JSON without any of the
\* three tiers, that cannot be read, that are JSON null
InitialDirs ==
    << [i \in {} |-> NotJson],
       [i \in {1} |-> export_state(HierarchicalContextStore)],
       [i \in {0, 1} |-> IF i = 1 THEN FilledSnapshot
                         ELSE export_state(HierarchicalContextStore)],
       [i \in {1, 2, 3} |-> CASE i = 1 -> FilledSnapshot
                               [] i = 2 -> NotJson
                               [] i = 3 -> Snapshots[8]],
       [i \in {0, 1, 2, 3} |-> CASE i = 0 -> Snapshots[5]
                                  [] i = 1 -> Unreadable
                                  [] i = 2 -> FilledSnapshot
                                  [] i = 3 -> JNull] >>

\* SessionManager.__init__ over a directory
InitManagerOver(dir) ==
    /\ files = dir
    /\ _sessions = load_all_sessions(dir)
    /\ used = DOMAIN dir \ {0}
    /\ known = DOMAIN load_all_sessions(dir)
    /\ before = [registered |-> {}, known |-> {},
                 _sessions |-> [i \in {} |-> HierarchicalContextStore],
                 files |-> [i \in {} |-> NotJson]]

\* SessionManager.__init__ over the k-th directory
InitManager(k) == InitManagerOver(InitialDirs[k])

NoOp == [op |-> "init", content |-> "", intent_labels |-> <<>>, role |-> "",
         keywords |-> None, result |-> "", snapshot |-> 0, was_pure |-> TRUE,
         session_id |-> 0, written |-> TRUE, text |-> <<>>, top_k |-> 0,
         total_before |-> 0, engine_before |-> KeywordExtractionEngine]

\* the store under test is s: a new one, or one that earlier calls, which
\* are not in `calls`, have written
InitStoreAs(s) ==
    /\ store = s
    /\ clock = 0
    /\ calls = <<>>
    /\ pure = (s = HierarchicalContextStore)
    /\ prev = s
    /\ last = NoOp
    /\ ops = 0
    /\ engine = KeywordExtractionEngine

InitStore == InitStoreAs(HierarchicalContextStore)

\* the event loop before the first request: no task, nothing running, no
\* summary handed out
InitLoop ==
    /\ tasks = <<>>
    /\ running = None
    /\ held = None
    /\ discarded = [i \in {} |-> HierarchicalContextStore]

\* the stores of the sessions as construction leaves them, and the list
\* objects their core items hold as keywords
InitHistory(sessions) ==
    /\ history = [i \in DOMAIN sessions |-> <<sessions[i]>>]
    /\ heap = [i \in DOMAIN sessions |->
                  IF sessions[i].core_context = None THEN <<>>
                  ELSE <<sessions[i].core_context[1].keywords>>]

Init ==
    /\ InitStore
    /\ InitLoop
    /\ InitManager(1)
    /\ InitHistory(load_all_sessions(InitialDirs[1]))

(***************************************************************************)
(* The operations on the store.                                            *)
(***************************************************************************)
StoreMessage(content, intent_labels, role, keywords) ==
    /\ store' = store_message(store, clock, content, intent_labels, role,
                              keywords)
    /\ clock' = clock + ClockReads(intent_labels, role)
    /\ calls' = IF pure
                THEN Append(calls, [content |-> content,
                                    intent_labels |-> intent_labels,
                                    role |-> role, keywords |-> keywords,
                                    timestamp |-> now(clock)])
                ELSE calls
    /\ prev' = store
    /\ last' = [NoOp EXCEPT !.op = "store_message", !.content = content,
                            !.intent_labels = intent_labels, !.role = role,
                            !.keywords = keywords, !.was_pure = pure]
    /\ ops' = ops + 1
    /\ UNCHANGED pure
    /\ UNCHANGED <<managerVars, engine, asyncVars>>

\* import_state of the k-th snapshot
ImportState(k) ==
    /\ store' = import_state(store, Snapshots[k]).store
    /\ prev' = store
    /\ last' = [NoOp EXCEPT !.op = "import_state", !.snapshot = k,
                    !.result = import_state(store, Snapshots[k]).result,
                    !.was_pure = pure]
    /\ pure' = FALSE
    /\ calls' = <<>>
    /\ ops' = ops + 1
    /\ UNCHANGED clock
    /\ UNCHANGED <<managerVars, engine, asyncVars>>

\* import_state(export_state()) on the store itself
RoundTrip ==
    /\ store' = import_state(store, export_state(store)).store
    /\ prev' = store
    /\ last' = [NoOp EXCEPT !.op = "round_trip",
                    !.result = import_state(store, export_state(store)).result,
                    !.was_pure = pure]
    /\ pure' = FALSE
    /\ calls' = <<>>
    /\ ops' = ops + 1
    /\ UNCHANGED clock
    /\ UNCHANGED <<managerVars, engine, asyncVars>>

ClearAll ==
    /\ store' = clear_all(store)
    /\ prev' = store
    /\ last' = [NoOp EXCEPT !.op = "clear_all", !.was_pure = pure]
    /\ pure' = FALSE
    /\ calls' = <<>>
    /\ ops' = ops + 1
    /\ UNCHANGED clock
    /\ UNCHANGED <<managerVars, engine, asyncVars>>

DoStoreMessage ==
    /\ ops < MaxOps
    /\ \E payload \in Payloads, intent_labels \in LabelLists,
          role \in Roles :
          StoreMessage(payload.content, intent_labels, role,
                       payload.keywords)

DoImportState == ops < MaxOps /\ \E k \in 1..Len(Snapshots) : ImportState(k)

DoRoundTrip == ops < MaxOps /\ RoundTrip

DoClearAll == ops < MaxOps /\ ClearAll

Next == DoStoreMessage \/ DoImportState \/ DoRoundTrip \/ DoClearAll

Spec == Init /\ [][Next]_vars

(***************************************************************************)
(* SpecTurn: a fresh store that sees store_message calls only, enough of   *)
(* them to fill the turn context and evict from it.                        *)
(***************************************************************************)
NextTurn ==
    /\ Len(calls) < MaxCalls
    /\ \E content \in Contents, role \in Roles :
            StoreMessage(content, <<"REFINEMENT">>, role, None)

SpecTurn == Init /\ [][NextTurn]_vars

(***************************************************************************)
(* SpecSessions: a SessionManager constructed over a persistence           *)
(* directory, and the operations on it.                                    *)
(***************************************************************************)
\* the manager as an operation finds it
Before ==
    [registered |-> DOMAIN _sessions, known |-> known,
     _sessions |-> _sessions, files |-> files]

\* start_session; written says whether save_session's write went through
StartSession(session_id, written) ==
    /\ _sessions' = start_session(_sessions, files, session_id,
                                  written).sessions
    /\ files' = start_session(_sessions, files, session_id, written).files
    /\ used' = used \cup {session_id}
    /\ known' = known \cup {session_id}
    /\ before' = Before
    /\ last' = [NoOp EXCEPT !.op = "start_session",
                    !.session_id = session_id, !.written = written,
                    !.engine_before = engine,
                    !.result = start_session(_sessions, files, session_id,
                                             written).result]
    /\ ops' = ops + 1
    /\ UNCHANGED <<engine, asyncVars>>
    /\ UNCHANGED <<storeVars, clock>>

\* end_session
EndSession(session_id) ==
    /\ _sessions' = end_session(_sessions, files, session_id).sessions
    /\ files' = end_session(_sessions, files, session_id).files
    /\ before' = Before
    /\ last' = [NoOp EXCEPT !.op = "end_session",
                    !.session_id = session_id, !.engine_before = engine,
                    !.result = end_session(_sessions, files,
                                           session_id).result]
    /\ ops' = ops + 1
    /\ UNCHANGED <<engine, asyncVars>>
    /\ UNCHANGED <<storeVars, clock, used, known>>

\* the process ends and a new SessionManager is constructed over the same
\* directory
Restart ==
    /\ _sessions' = load_all_sessions(files)
    /\ known' = DOMAIN load_all_sessions(files)
    /\ before' = Before
    /\ last' = [NoOp EXCEPT !.op = "restart", !.result = "returned"]
    /\ ops' = ops + 1
    /\ UNCHANGED <<engine, asyncVars>>
    /\ UNCHANGED <<storeVars, clock, files, used>>

\* get_context: a read of the manager
GetContext(session_id) ==
    /\ before' = Before
    /\ last' = [NoOp EXCEPT !.op = "get_context",
                    !.session_id = session_id,
                    !.result = get_context(session_id)]
    /\ UNCHANGED <<engine, asyncVars>>
    /\ UNCHANGED <<storeVars, clock, ops, _sessions, files, used, known>>

\* get_session_stats: a read of the manager
GetSessionStats(session_id) ==
    /\ before' = Before
    /\ last' = [NoOp EXCEPT !.op = "get_session_stats",
                    !.session_id = session_id,
                    !.result = get_session_stats(session_id)]
    /\ UNCHANGED <<engine, asyncVars>>
    /\ UNCHANGED <<storeVars, clock, ops, _sessions, files, used, known>>

\* the export_context tool: what it returns.  context_data is the parsed
\* export_state(); context_data.get("core_context", {}) is the value
\* stored under the key, None for a store without a core problem, and
\* None.get raises the AttributeError that `except Exception` turns into
\* EXPORT_FAILED.  A key the returned dict lacks is None here.
export_context(session_id) ==
    IF get_context(session_id) = None
    THEN [success |-> FALSE, error |-> "Session not found",
          error_code |-> "SESSION_NOT_FOUND", data |-> None,
          metadata |-> None]
    ELSE LET context_data == export_state(get_context(session_id)[1])
         IN IF context_data.fields.core_context.t = "null"
            THEN [success |-> FALSE,
                  error |-> "'NoneType' object has no attribute 'get'",
                  error_code |-> "EXPORT_FAILED", data |-> None,
                  metadata |-> None]
            ELSE [success |-> TRUE, error |-> "", error_code |-> "",
                  data |-> Some(context_data),
                  metadata |-> Some(
                    [session_id |-> session_id,
                     exported_at |->
                        context_data.fields.core_context.fields.timestamp,
                     items_count |->
                        [core_items |->
                            IF Truthy(context_data.fields.core_context)
                            THEN 1 ELSE 0,
                         evolving_items |->
                            Len(context_data.fields.evolving_context.items),
                         turn_items |->
                            Len(context_data.fields.turn_context.items)]])]

\* the export_context tool: a read of the manager
ExportContext(session_id) ==
    /\ before' = Before
    /\ last' = [NoOp EXCEPT !.op = "export_context",
                    !.session_id = session_id,
                    !.result = export_context(session_id)]
    /\ UNCHANGED <<engine, asyncVars>>
    /\ UNCHANGED <<storeVars, clock, ops, _sessions, files, used, known>>

\* get_context(session_id).clear_all() on a registered session
SessionClearAll(session_id) ==
    /\ session_id \in DOMAIN _sessions
    /\ _sessions' = [_sessions EXCEPT ![session_id] = clear_all(@)]
    /\ before' = Before
    /\ last' = [NoOp EXCEPT !.op = "session_clear_all",
                    !.session_id = session_id, !.engine_before = engine]
    /\ ops' = ops + 1
    /\ UNCHANGED <<engine, asyncVars>>
    /\ UNCHANGED <<storeVars, clock, files, used, known>>

\* stores whose tiers are one object for all sessions: the message is in
\* every registered store
Shared_SessionStoreMessage(session_id, content, intent_labels) ==
    /\ session_id \in DOMAIN _sessions
    /\ _sessions' = [i \in DOMAIN _sessions |->
                        store_message(_sessions[i], clock, content,
                                      intent_labels, "user", None)]
    /\ clock' = clock + ClockReads(intent_labels, "user")
    /\ before' = Before
    /\ last' = [NoOp EXCEPT !.op = "session_store_message",
                    !.session_id = session_id, !.content = content,
                    !.engine_before = engine,
                    !.intent_labels = intent_labels, !.role = "user"]
    /\ ops' = ops + 1
    /\ UNCHANGED <<engine, asyncVars>>
    /\ UNCHANGED <<storeVars, files, used, known>>

\* process_user_message on a registered session, from the classifier's
\* answer on: context_store.store_message(...) and no save_session
SessionStoreMessage(session_id, content, intent_labels) ==
    /\ session_id \in DOMAIN _sessions
    /\ _sessions' = [_sessions EXCEPT ![session_id] =
                        store_message(@, clock, content, intent_labels,
                                      "user", None)]
    /\ clock' = clock + ClockReads(intent_labels, "user")
    /\ before' = Before
    /\ last' = [NoOp EXCEPT !.op = "session_store_message",
                    !.session_id = session_id, !.content = content,
                    !.engine_before = engine,
                    !.intent_labels = intent_labels, !.role = "user"]
    /\ ops' = ops + 1
    /\ UNCHANGED <<engine, asyncVars>>
    /\ UNCHANGED <<storeVars, files, used, known>>

\* the import_context tool: an unregistered session_id starts a session
\* (new_id, written); text that json.loads refuses is answered before
\* import_state is called; import_state then works on the session's store,
\* and nothing saves the session afterwards
ImportContext(session_id, k, new_id, written) ==
    LET started == start_session(_sessions, files, new_id, written)
        found == session_id \in DOMAIN _sessions
        target == IF found THEN session_id ELSE new_id
        sessions == IF found THEN _sessions ELSE started.sessions
        imported == import_state(sessions[target], Snapshots[k])
    IN /\ _sessions' = IF Snapshots[k].t = "invalid" THEN sessions
                       ELSE [sessions EXCEPT ![target] = imported.store]
       /\ files' = IF found THEN files ELSE started.files
       /\ used' = IF found THEN used ELSE used \cup {new_id}
       /\ known' = IF found THEN known ELSE known \cup {new_id}
       /\ before' = Before
       /\ last' = [NoOp EXCEPT !.op = "import_context",
                       !.session_id = target, !.snapshot = k,
                       !.written = written,
                       !.result = CASE Snapshots[k].t = "invalid"
                                         -> "INVALID_JSON"
                                    [] imported.result = "True" -> "success"
                                    [] imported.result = "False"
                                         -> "IMPORT_FAILED"
                                    [] OTHER -> "UNEXPECTED_ERROR"]
       /\ ops' = ops + 1
       /\ UNCHANGED <<engine, asyncVars>>
       /\ UNCHANGED <<storeVars, clock>>

DoStartSession ==
    /\ ops < MaxSessionOps
    /\ \E session_id \in uuid4, written \in BOOLEAN :
          StartSession(session_id, written)

DoEndSession ==
    /\ ops < MaxSessionOps
    /\ \E session_id \in SessionIds : EndSession(session_id)

DoRestart == ops < MaxSessionOps /\ Restart

DoGetContext == \E session_id \in SessionIds : GetContext(session_id)

DoGetSessionStats ==
    \E session_id \in SessionIds : GetSessionStats(session_id)

DoExportContext ==
    \E session_id \in SessionIds : ExportContext(session_id)

DoSessionStoreMessage ==
    /\ ops < MaxSessionOps
    /\ \E session_id \in DOMAIN _sessions, content \in Contents :
          SessionStoreMessage(session_id, content,
                              <<"PROBLEM_DEFINITION", "REFINEMENT">>)

DoSessionClearAll ==
    /\ ops < MaxSessionOps
    /\ \E session_id \in DOMAIN _sessions : SessionClearAll(session_id)

DoImportContext ==
    /\ ops < MaxSessionOps
    /\ \/ \E session_id \in DOMAIN _sessions, k \in ImportedSnapshots :
             ImportContext(session_id, k, session_id, TRUE)
       \/ \E session_id \in {0} \ DOMAIN _sessions,
              k \in ImportedSnapshots, new_id \in uuid4,
              written \in BOOLEAN :
             ImportContext(session_id, k, new_id, written)

NextSessions ==
    \/ DoStartSession
    \/ DoEndSession
    \/ DoRestart
    \/ DoGetContext
    \/ DoGetSessionStats
    \/ DoExportContext
    \/ DoSessionStoreMessage
    \/ DoSessionClearAll
    \/ DoImportContext

InitSessions ==
    /\ InitStore
    /\ InitLoop
    /\ \E k \in 1..Len(InitialDirs) :
          InitManager(k) /\ InitHistory(load_all_sessions(InitialDirs[k]))

SpecSessions == InitSessions /\ [][NextSessions]_vars

(***************************************************************************)
(* SpecKeywords: a KeywordExtractionEngine and the calls on it, one at a   *)
(* time.                                                                   *)
(***************************************************************************)
\* the texts extract_keywords is called with: empty, white space, without
\* a token, and texts that share some of their tokens
Texts ==
    { <<>>, <<" ">>, <<"42", "x", "the">>, <<"api", "db">>,
      <<"API", "the", "ui">>, <<"db", "db", "ui", "api">>, <<"ui">> }

\* the top_k of the callers (main.py:75, the default) and a smaller one
TopKs == {1, 3, 5}

ExtractKeywords(text, top_k) ==
    /\ engine' = extract_keywords(engine, text, top_k).engine
    /\ last' = [NoOp EXCEPT !.op = "extract_keywords", !.text = text,
                    !.top_k = top_k,
                    !.result = extract_keywords(engine, text, top_k).result,
                    !.total_before = engine._total_documents,
                    !.engine_before = engine]
    /\ ops' = ops + 1
    /\ UNCHANGED <<storeVars, clock, managerVars, asyncVars>>

ResetCorpus ==
    /\ engine' = reset_corpus(engine)
    /\ last' = [NoOp EXCEPT !.op = "reset_corpus",
                    !.total_before = engine._total_documents,
                    !.engine_before = engine]
    /\ ops' = ops + 1
    /\ UNCHANGED <<storeVars, clock, managerVars, asyncVars>>

\* get_corpus_stats: a read of the engine
GetCorpusStats ==
    /\ last' = [NoOp EXCEPT !.op = "get_corpus_stats",
                    !.result = get_corpus_stats(engine),
                    !.total_before = engine._total_documents,
                    !.engine_before = engine]
    /\ UNCHANGED <<storeVars, clock, ops, managerVars, engine, asyncVars>>

DoExtractKeywords ==
    /\ ops < MaxExtracts
    /\ \E text \in Texts, top_k \in TopKs : ExtractKeywords(text, top_k)

DoResetCorpus == ops < MaxExtracts /\ ResetCorpus

\* the calls on the engine, and between them the operations on the
\* sessions of the server that holds the engine
NextKeywords ==
    \/ DoExtractKeywords
    \/ DoResetCorpus
    \/ GetCorpusStats
    \/ DoStartSession
    \/ DoEndSession
    \/ DoSessionStoreMessage

\* a new engine in a server whose manager has loaded one session
InitKeywords ==
    /\ InitStore
    /\ InitLoop
    /\ InitManager(2)
    /\ InitHistory(load_all_sessions(InitialDirs[2]))

SpecKeywords == InitKeywords /\ [][NextKeywords]_vars

(***************************************************************************)
(* SpecAsync: the event loop of the server (main.py).  The handlers are    *)
(* coroutines of one asyncio loop (mcp.run(), no thread is started and no  *)
(* lock is taken anywhere): a callback runs until its coroutine awaits or  *)
(* returns, and only then the next one runs.  A request is a               *)
(* process_user_message call; its gather runs the classification and the   *)
(* keyword extraction as two tasks of the loop.                            *)
(*                                                                         *)
(* classify_intent (intent_classifier.py:71) is a plain function, and      *)
(* main.py:71 awaits what it returns: with the classifier of the           *)
(* repository the await raises TypeError.  The classification step has     *)
(* both outcomes, the labels of a classifier that can be awaited and the   *)
(* exception of the one in src/.                                           *)
(***************************************************************************)
\* the words of the messages the requests carry
Words(message) ==
    IF message = "c1" THEN <<"api", "db">> ELSE <<"API", "the", "ui">>

\* the requests the loop is given
Requests == {1, 2}

\* the session ids the requests name: a registered one and one that is not
RequestSessionIds == {0, 1}

\* what the await of main.py:71 ends with: the labels of the classifier,
\* or the TypeError of awaiting a value that is not awaitable
Outcomes ==
    { [raised |-> FALSE, intent |-> <<"PROBLEM_DEFINITION", "REFINEMENT">>],
      [raised |-> FALSE, intent |-> <<"UNCLEAR">>],
      [raised |-> TRUE, intent |-> <<>>] }

\* a store whose turn_context is full
BusyStore ==
    [core_context |-> None, evolving_context |-> <<>>,
     turn_context |-> [i \in 1..max_turn_context |->
                          Message("c2", "assistant", now(0), <<"UNCLEAR">>)]]

\* the persistence directories the server is started over: session 1 with
\* an empty store, session 1 with a full turn_context
ServerDirs ==
    << [i \in {1} |-> export_state(HierarchicalContextStore)],
       [i \in {1} |-> export_state(BusyStore)] >>

\* a handler that can be preempted anywhere (threads instead of one loop)
Preemptive_HandlerSuspends(pc) == TRUE

\* process_user_message gives the loop back at its await (main.py:78) and
\* at its return; store_message (main.py:84) is a plain call inside it
HandlerSuspends(pc) == pc \in {"gather", "done"}

\* a keyword extraction that can be preempted anywhere
Preemptive_ExtractSuspends(position) == TRUE

\* optimized_keyword_extraction (main.py:73-75) has no await: it gives the
\* loop back when it returns
ExtractSuspends(position) == position = "returned"

\* the callback may run: the loop is idle or is running this very callback
Runs(t, coroutine) == running = None \/ running = Some(<<t, coroutine>>)

\* the loop after a step of a callback
After(t, coroutine, suspends) ==
    IF suspends THEN None ELSE Some(<<t, coroutine>>)

\* the requests that have not returned
InFlight == {t \in DOMAIN tasks : tasks[t].pc # "done"}

\* core_context = ContextItem(keywords=keywords or [], ...) that fills the
\* list the core item already holds instead of taking the new one
InPlace_BindCore(objects, keywords) ==
    IF objects = <<>> THEN <<keywords>>
    ELSE [objects EXCEPT ![Len(objects)] = keywords]

\* core_context = ContextItem(keywords=keywords or [], ...): the new core
\* item holds the list it is given, the lists of earlier items are left
\* as they are
BindCore(objects, keywords) == Append(objects, keywords)

\* process_user_message up to its await (main.py:61-81): the store of the
\* session is looked up, a new session is started when there is none, and
\* the two coroutines are handed to gather
ProcessUserMessage(message, session_id, new_id, written) ==
    LET found == session_id \in DOMAIN _sessions
        started == start_session(_sessions, files, new_id, written)
        id == IF found THEN session_id ELSE started.result[1]
        t == Len(tasks) + 1
    IN /\ running = None
       /\ t \in Requests
       /\ _sessions' = IF found THEN _sessions ELSE started.sessions
       /\ files' = IF found THEN files ELSE started.files
       /\ used' = IF found THEN used ELSE used \cup {new_id}
       /\ known' = IF found THEN known ELSE known \cup {new_id}
       /\ history' = IF found THEN history
                     ELSE Register(history, id, <<HierarchicalContextStore>>)
       /\ heap' = IF found THEN heap ELSE Register(heap, id, <<>>)
       /\ tasks' = Append(tasks,
                          [message |-> message, session_id |-> id,
                           pc |-> "gather", classify |-> "pending",
                           intent |-> <<>>, extract |-> "pending",
                           read |-> KeywordExtractionEngine,
                           keywords |-> <<>>, result |-> "",
                           response |-> None, registered |-> TRUE,
                           overlapped |-> InFlight # {}])
       /\ running' = After(t, "handler", HandlerSuspends("gather"))
       /\ UNCHANGED <<storeVars, clock, last, ops, before, engine, held,
                      discarded>>

\* lightweight_intent_classification (main.py:69-71), from its start to
\* its end: it touches nothing the other callbacks share
LightweightIntentClassification(t, outcome) ==
    /\ running = None
    /\ tasks[t].pc = "gather"
    /\ tasks[t].classify = "pending"
    /\ tasks' = [tasks EXCEPT ![t].classify = IF outcome.raised THEN "raised"
                                              ELSE "returned",
                              ![t].intent = outcome.intent]
    /\ UNCHANGED <<storeVars, clock, last, ops, managerVars, engine,
                   running, held, history, heap, discarded>>

\* extract_keywords, entered (keyword_extraction.py:154-158): a blank text
\* returns at once, otherwise _update_corpus reads the counts it is going
\* to raise
UpdateCorpusRead(t) ==
    /\ running = None
    /\ tasks[t].pc = "gather"
    /\ tasks[t].extract = "pending"
    /\ IF Blank(Words(tasks[t].message))
       THEN /\ tasks' = [tasks EXCEPT ![t].extract = "returned"]
            /\ running' = After(t, "extract", ExtractSuspends("returned"))
       ELSE /\ tasks' = [tasks EXCEPT ![t].extract = "read",
                                      ![t].read = engine]
            /\ running' = After(t, "extract", ExtractSuspends("read"))
    /\ UNCHANGED <<storeVars, clock, last, ops, managerVars, engine, held,
                   history, heap, discarded>>

\* _update_corpus, its writes (keyword_extraction.py:132-140): the counts
\* it has read, raised by one
UpdateCorpusWrite(t) ==
    /\ Runs(t, "extract")
    /\ tasks[t].extract = "read"
    /\ engine' = _update_corpus(tasks[t].read, Words(tasks[t].message))
    /\ tasks' = [tasks EXCEPT ![t].extract = "written"]
    /\ running' = After(t, "extract", ExtractSuspends("written"))
    /\ UNCHANGED <<storeVars, clock, last, ops, managerVars, held, history,
                   heap, discarded>>

\* extract_keywords after the update (keyword_extraction.py:160-191), with
\* the top_k of main.py:75: the scores on the corpus as it is now
OptimizedKeywordExtraction(t) ==
    /\ Runs(t, "extract")
    /\ tasks[t].extract = "written"
    /\ tasks' = [tasks EXCEPT
                    ![t].extract = "returned",
                    ![t].keywords =
                        IF _tokenize(Words(tasks[t].message)) = <<>>
                        THEN <<>>
                        ELSE ScoreKeywords(engine, Words(tasks[t].message),
                                           3)]
    /\ running' = After(t, "extract", ExtractSuspends("returned"))
    /\ UNCHANGED <<storeVars, clock, last, ops, managerVars, engine, held,
                   history, heap, discarded>>

\* the store the handler of request t has looked up (context_store of
\* main.py:62-65): the object stays the handler's when the session is ended
context_store(t) ==
    IF tasks[t].session_id \in DOMAIN _sessions
    THEN _sessions[tasks[t].session_id]
    ELSE discarded[tasks[t].session_id]

\* the handler of request t leaves its store as `after`
WriteStore(t, after) ==
    IF tasks[t].session_id \in DOMAIN _sessions
    THEN /\ _sessions' = [_sessions EXCEPT ![tasks[t].session_id] = after]
         /\ discarded' = discarded
    ELSE /\ discarded' = [discarded EXCEPT ![tasks[t].session_id] = after]
         /\ _sessions' = _sessions

\* the handler resumed with both results; store_message, its first
\* statements (context_store.py:57-65): the Message is built and appended
StoreMessageAppend(t) ==
    /\ Runs(t, "handler")
    /\ tasks[t].pc = "gather"
    /\ tasks[t].classify = "returned"
    /\ tasks[t].extract = "returned"
    /\ WriteStore(t, [context_store(t) EXCEPT !.turn_context =
                          Append(@, Message(tasks[t].message, "user",
                                            now(clock), tasks[t].intent))])
    /\ clock' = clock + 1
    /\ tasks' = [tasks EXCEPT ![t].pc = "appended"]
    /\ running' = After(t, "handler", HandlerSuspends("appended"))
    /\ UNCHANGED <<storeVars, last, ops, files, used, known, before, engine,
                   held, history, heap>>

\* store_message, _trim_turn_context (context_store.py:66)
StoreMessageTrim(t) ==
    /\ Runs(t, "handler")
    /\ tasks[t].pc = "appended"
    /\ WriteStore(t, [context_store(t) EXCEPT !.turn_context =
                          _trim_turn_context(@)])
    /\ tasks' = [tasks EXCEPT ![t].pc = "trimmed"]
    /\ running' = After(t, "handler", HandlerSuspends("trimmed"))
    /\ UNCHANGED <<storeVars, clock, last, ops, files, used, known, before,
                   engine, held, history, heap>>

\* the store after the routing of store_message (context_store.py:69-85),
\* entered when the clock shows c
Routed(s, c, content, intent_labels, keywords) ==
    [s EXCEPT
        !.core_context =
            NewCore(s, c - 1, content, intent_labels, "user",
                    Some(keywords)),
        !.evolving_context =
            NewEvolving(s, IF RoutesToCore(intent_labels, "user") THEN c
                           ELSE c - 1,
                        content, intent_labels, "user", Some(keywords))]

\* store_message, the routing (context_store.py:69-85), and the rest of
\* the handler, which builds the answer and returns (main.py:91-120)
StoreMessageRoute(t) ==
    LET id == tasks[t].session_id
        after == Routed(context_store(t), clock, tasks[t].message,
                        tasks[t].intent, tasks[t].keywords)
    IN /\ Runs(t, "handler")
       /\ tasks[t].pc = "trimmed"
       /\ WriteStore(t, after)
       /\ clock' = clock + ClockReads(tasks[t].intent, "user") - 1
       /\ history' = [history EXCEPT ![id] = Append(@, after)]
       /\ heap' = IF RoutesToCore(tasks[t].intent, "user")
                  THEN [heap EXCEPT ![id] = BindCore(@, tasks[t].keywords)]
                  ELSE heap
       /\ tasks' = [tasks EXCEPT
                       ![t].pc = "done", ![t].result = "ok",
                       ![t].registered = id \in DOMAIN _sessions,
                       ![t].response =
                           Some([intent |-> tasks[t].intent,
                                 keyword_analysis |-> tasks[t].keywords,
                                 session_id |-> id])]
       /\ running' = After(t, "handler", HandlerSuspends("done"))
       /\ UNCHANGED <<storeVars, last, ops, files, used, known, before,
                      engine, held>>

\* an exception that reaches the handler when store_message has appended
\* the message
Late_ErrorEnvelope(t) ==
    /\ running = None
    /\ tasks[t].pc = "gather"
    /\ tasks[t].classify = "raised"
    /\ tasks[t].extract = "returned"
    /\ WriteStore(t, [context_store(t) EXCEPT !.turn_context =
                          Append(@, Message(tasks[t].message, "user",
                                            now(clock), <<"ERROR">>))])
    /\ tasks' = [tasks EXCEPT
                    ![t].pc = "done", ![t].result = "ERROR",
                    ![t].registered =
                        tasks[t].session_id \in DOMAIN _sessions,
                    ![t].response =
                        Some([intent |-> <<"ERROR">>,
                              keyword_analysis |-> <<>>,
                              session_id |-> tasks[t].session_id])]
    /\ UNCHANGED <<storeVars, clock, last, ops, files, used, known, before,
                   engine, running, held, history, heap>>

\* the handler resumed with the exception of the classification
\* (main.py:122-148): the error envelope, nothing is stored.  The
\* extraction task was started before the exception reached the handler
\* and has returned.
ErrorEnvelope(t) ==
    /\ running = None
    /\ tasks[t].pc = "gather"
    /\ tasks[t].classify = "raised"
    /\ tasks[t].extract = "returned"
    /\ tasks' = [tasks EXCEPT
                    ![t].pc = "done", ![t].result = "ERROR",
                    ![t].registered =
                        tasks[t].session_id \in DOMAIN _sessions,
                    ![t].response =
                        Some([intent |-> <<"ERROR">>,
                              keyword_analysis |-> <<>>,
                              session_id |-> tasks[t].session_id])]
    /\ UNCHANGED <<storeVars, clock, last, ops, managerVars, engine,
                   running, held, history, heap, discarded>>

\* a reader of the session (get_session_stats, main.py:689-702): a handler
\* without an await, which calls get_context_summary; the summary's
\* core_keywords is the list the core item holds, when there is one.
\* Kept with the summary, for the properties: the store as the last
\* completed store_message left it, and the requests then in flight.
GetContextSummary(session_id) ==
    /\ running = None
    /\ held = None
    /\ session_id \in DOMAIN _sessions
    /\ held' = Some([session_id |-> session_id,
                     summary |-> get_context_summary(_sessions[session_id]),
                     stats |-> get_stats(_sessions[session_id]),
                     core_keywords |->
                         IF _sessions[session_id].core_context = None THEN 0
                         ELSE Len(heap[session_id]),
                     committed |->
                         history[session_id][Len(history[session_id])],
                     during |-> InFlight])
    /\ UNCHANGED <<storeVars, clock, last, ops, managerVars, engine, tasks,
                   running, history, heap, discarded>>

\* the end_session tool (main.py:588-637), a handler without an await:
\* the manager forgets the session and removes its file; the store is no
\* longer the manager's, the handlers that hold it keep it
EndSessionTool(session_id) ==
    /\ running = None
    /\ _sessions' = end_session(_sessions, files, session_id).sessions
    /\ files' = end_session(_sessions, files, session_id).files
    /\ discarded' = IF session_id \in DOMAIN _sessions
                    THEN Register(discarded, session_id,
                                  _sessions[session_id])
                    ELSE discarded
    /\ UNCHANGED <<storeVars, clock, last, ops, used, known, before, engine,
                   tasks, running, held, history, heap>>

\* a request for a registered session draws no id and writes no file; the
\* unused ids are alike for a request, the least one stands for them
DoProcessUserMessage ==
    \E message \in Contents, session_id \in RequestSessionIds :
        IF session_id \in DOMAIN _sessions
        THEN ProcessUserMessage(message, session_id, session_id, TRUE)
        ELSE \E new_id \in uuid4, written \in BOOLEAN :
                /\ \A i \in uuid4 : new_id <= i
                /\ ProcessUserMessage(message, session_id, new_id, written)

DoLightweightIntentClassification ==
    \E t \in DOMAIN tasks, outcome \in Outcomes :
        LightweightIntentClassification(t, outcome)

DoUpdateCorpusRead == \E t \in DOMAIN tasks : UpdateCorpusRead(t)

DoUpdateCorpusWrite == \E t \in DOMAIN tasks : UpdateCorpusWrite(t)

DoOptimizedKeywordExtraction ==
    \E t \in DOMAIN tasks : OptimizedKeywordExtraction(t)

DoStoreMessageAppend == \E t \in DOMAIN tasks : StoreMessageAppend(t)

DoStoreMessageTrim == \E t \in DOMAIN tasks : StoreMessageTrim(t)

DoStoreMessageRoute == \E t \in DOMAIN tasks : StoreMessageRoute(t)

DoErrorEnvelope == \E t \in DOMAIN tasks : ErrorEnvelope(t)

DoGetContextSummary ==
    \E session_id \in DOMAIN _sessions : GetContextSummary(session_id)

\* one session is ended, once
DoEndSessionTool ==
    /\ DOMAIN discarded = {}
    /\ \E session_id \in DOMAIN _sessions : EndSessionTool(session_id)

NextAsync ==
    \/ DoProcessUserMessage
    \/ DoEndSessionTool
    \/ DoLightweightIntentClassification
    \/ DoUpdateCorpusRead
    \/ DoUpdateCorpusWrite
    \/ DoOptimizedKeywordExtraction
    \/ DoStoreMessageAppend
    \/ DoStoreMessageTrim
    \/ DoStoreMessageRoute
    \/ DoErrorEnvelope
    \/ DoGetContextSummary

InitAsync ==
    /\ InitStore
    /\ InitLoop
    /\ \E k \in 1..Len(ServerDirs) :
          /\ InitManagerOver(ServerDirs[k])
          /\ InitHistory(load_all_sessions(ServerDirs[k]))

SpecAsync == InitAsync /\ [][NextAsync]_vars

(***************************************************************************)
(* SpecPrompt: a store, the PromptSynthesisEngine bound to it and the      *)
(* manager's statistics of it.  The store is written by store_message and  *)
(* clear_all; the engine and the statistics read it.                       *)
(***************************************************************************)
\* a keyword as extract_keywords returns it
Kw(keyword) == [keyword |-> keyword, score |-> 1]

\* the store_message calls of the specification: contents that are empty,
\* blank, of two lines; without keywords and with more than three
PromptCalls ==
    { [content |-> "c1", intent_labels |-> <<"PROBLEM_DEFINITION">>,
       role |-> "user",
       keywords |-> Some(<<Kw("k1"), Kw("k2"), Kw("k3"), Kw("k4"),
                           Kw("k5"), Kw("k6")>>)],
      [content |-> "", intent_labels |-> <<"PROBLEM_DEFINITION">>,
       role |-> "user", keywords |-> None],
      [content |-> "c2", intent_labels |-> <<"REFINEMENT">>,
       role |-> "user",
       keywords |-> Some(<<Kw("k1"), Kw("k2"), Kw("k3"), Kw("k4")>>)],
      [content |-> "l1\nl2", intent_labels |-> <<"CONSTRAINT_ADDITION">>,
       role |-> "user", keywords |-> None],
      [content |-> "c1", intent_labels |-> <<"REFINEMENT">>,
       role |-> "user",
       keywords |-> Some(<<Kw("k7"), Kw("k8"), Kw("k9")>>)],
      [content |-> "c2", intent_labels |-> <<"REFINEMENT">>,
       role |-> "user",
       keywords |-> Some(<<Kw("k4"), Kw("k5"), Kw("k6")>>)],
      [content |-> "", intent_labels |-> <<"UNCLEAR">>,
       role |-> "assistant", keywords |-> None],
      [content |-> " ", intent_labels |-> <<"QUESTION">>,
       role |-> "user", keywords |-> None] }

\* the messages the prompt is synthesized for
CurrentMessages == {"c1", ""}

\* the id the manager has the store under
PromptSessionId == 1

SynthesizePrompt(current_message) ==
    /\ store' = synthesize_prompt(store, current_message).context_store
    /\ prev' = store
    /\ last' = [NoOp EXCEPT
                    !.op = "synthesize_prompt", !.content = current_message,
                    !.result = synthesize_prompt(store,
                                                 current_message).result]
    /\ UNCHANGED <<clock, calls, pure, ops>>
    /\ UNCHANGED <<managerVars, engine, asyncVars>>

GetContextStats ==
    /\ store' = get_context_stats(store).context_store
    /\ prev' = store
    /\ last' = [NoOp EXCEPT !.op = "get_context_stats",
                            !.result = get_context_stats(store).result]
    /\ UNCHANGED <<clock, calls, pure, ops>>
    /\ UNCHANGED <<managerVars, engine, asyncVars>>

CreateDebugInfo(current_message) ==
    /\ store' = create_debug_info(store, current_message).context_store
    /\ prev' = store
    /\ last' = [NoOp EXCEPT
                    !.op = "create_debug_info", !.content = current_message,
                    !.result = create_debug_info(store,
                                                 current_message).result]
    /\ UNCHANGED <<clock, calls, pure, ops>>
    /\ UNCHANGED <<managerVars, engine, asyncVars>>

DoPromptStoreMessage ==
    /\ ops < MaxPromptOps
    /\ \E call \in PromptCalls :
          StoreMessage(call.content, call.intent_labels, call.role,
                       call.keywords)

DoPromptClearAll == ops < MaxPromptOps /\ ClearAll

DoSynthesizePrompt ==
    \E current_message \in CurrentMessages :
        SynthesizePrompt(current_message)

DoCreateDebugInfo ==
    \E current_message \in CurrentMessages : CreateDebugInfo(current_message)

NextPrompt ==
    \/ DoPromptStoreMessage
    \/ DoPromptClearAll
    \/ DoSynthesizePrompt
    \/ GetContextStats
    \/ DoCreateDebugInfo

\* a new store, or one whose turn_context earlier calls have filled
InitPrompt ==
    /\ \E s \in {HierarchicalContextStore, BusyStore} : InitStoreAs(s)
    /\ InitLoop
    /\ InitManager(1)
    /\ InitHistory(load_all_sessions(InitialDirs[1]))

SpecPrompt == InitPrompt /\ [][NextPrompt]_vars

(***************************************************************************)
(* Properties of the store.                                                *)
(***************************************************************************)
Recognized == {"PROBLEM_DEFINITION", "CONSTRAINT_ADDITION", "REFINEMENT"}

\* the Message a logged store_message call has built
MessageOf(call) ==
    Message(call.content, call.role, call.timestamp, call.intent_labels)

\* the logged calls that set the core tier, and those that add to the
\* evolving tier, by their place in the log
ProblemCalls ==
    {i \in 1..Len(calls) :
        calls[i].role = "user"
        /\ In("PROBLEM_DEFINITION", calls[i].intent_labels)}
EvolvingCalls ==
    {i \in 1..Len(calls) :
        calls[i].role = "user"
        /\ (In("CONSTRAINT_ADDITION", calls[i].intent_labels)
            \/ In("REFINEMENT", calls[i].intent_labels))}

Max(S) == CHOOSE x \in S : \A y \in S : y <= x
Min2(a, b) == IF a <= b THEN a ELSE b

\* C1: after every mutation of the store (store_message, import_state,
\* clear_all) the turn context holds at most max_turn_context messages.
\* import_state appends every message of the snapshot and never trims.
C1_TurnContextBounded == Len(store.turn_context) <= max_turn_context

\* C2: on a fresh store that has seen n store_message calls and nothing
\* else, the turn context holds the last min(n, max_turn_context) messages
\* stored, in the order they were stored.
C2_TurnEviction ==
    pure =>
        /\ Len(store.turn_context) = Min2(Len(calls), max_turn_context)
        /\ \A i \in 1..Len(store.turn_context) :
              store.turn_context[i] =
                  MessageOf(calls[Len(calls) - Len(store.turn_context) + i])

\* C2 witness: two messages more than the turn context holds were stored,
\* and the evicted ones differ from the ones kept.
C2_Witness ==
    /\ pure
    /\ Len(calls) = max_turn_context + 2
    /\ calls[1].content # calls[max_turn_context + 1].content
    /\ calls[2].role # calls[max_turn_context + 2].role

\* C3: on a fresh store that has seen store_message calls only, the core
\* context is None if no user message labelled PROBLEM_DEFINITION was
\* stored, and otherwise one item with the content, keywords and labels of
\* the most recent such message.
C3_CoreReplace ==
    pure =>
        IF ProblemCalls = {} THEN store.core_context = None
        ELSE /\ Len(store.core_context) = 1
             /\ store.core_context[1].content =
                    calls[Max(ProblemCalls)].content
             /\ store.core_context[1].keywords =
                    KeywordsOrEmpty(calls[Max(ProblemCalls)].keywords)
             /\ store.core_context[1].intent_labels =
                    calls[Max(ProblemCalls)].intent_labels

\* C3 witness: two problem definitions with different content and keywords
\* were stored, and a message that is none after them.
C3_Witness ==
    /\ pure
    /\ Cardinality(ProblemCalls) = 2
    /\ Len(calls) = 3
    /\ 3 \notin ProblemCalls
    /\ \E i, j \in ProblemCalls :
          /\ i < j
          /\ calls[i].content # calls[j].content
          /\ calls[i].keywords # calls[j].keywords
    /\ store.core_context # None

\* C4: on a fresh store that has seen store_message calls only, the
\* evolving context has one item per user message labelled
\* CONSTRAINT_ADDITION or REFINEMENT, in call order; a message with both
\* labels gives one item, which carries both.
C4_EvolvingAppend ==
    pure =>
        /\ Len(store.evolving_context) = Cardinality(EvolvingCalls)
        /\ \A k \in 1..Len(store.evolving_context) :
              \E i \in EvolvingCalls :
                 /\ Cardinality({j \in EvolvingCalls : j <= i}) = k
                 /\ store.evolving_context[k].content = calls[i].content
                 /\ store.evolving_context[k].intent_labels =
                        calls[i].intent_labels

\* C4 witness: a user message with both labels was stored, an assistant
\* message with such a label too, and a user message with one of them.
C4_Witness ==
    /\ pure
    /\ \E i \in EvolvingCalls :
          /\ In("CONSTRAINT_ADDITION", calls[i].intent_labels)
          /\ In("REFINEMENT", calls[i].intent_labels)
    /\ \E i \in 1..Len(calls) :
          calls[i].role = "assistant"
          /\ In("REFINEMENT", calls[i].intent_labels)
    /\ Cardinality(EvolvingCalls) = 2

\* the last operation was a store_message that put its message at the end
\* of the turn context
AppendedToTurn ==
    /\ Len(store.turn_context) >= 1
    /\ Len(store.turn_context) =
          Min2(Len(prev.turn_context) + 1, max_turn_context)
    /\ store.turn_context[Len(store.turn_context)].content = last.content
    /\ store.turn_context[Len(store.turn_context)].role = last.role
    /\ store.turn_context[Len(store.turn_context)].intent_labels =
          last.intent_labels

\* C5: a store_message with role assistant leaves the core and evolving
\* contexts as they were, whatever its labels; it only appends to the turn
\* context.
C5_AssistantFrame ==
    (last.op = "store_message" /\ last.role = "assistant") =>
        /\ store.core_context = prev.core_context
        /\ store.evolving_context = prev.evolving_context
        /\ AppendedToTurn

\* C5 witness: an assistant message labelled PROBLEM_DEFINITION and
\* CONSTRAINT_ADDITION was stored into a store with a core problem.
C5_Witness ==
    /\ last.op = "store_message"
    /\ last.role = "assistant"
    /\ In("PROBLEM_DEFINITION", last.intent_labels)
    /\ In("CONSTRAINT_ADDITION", last.intent_labels)
    /\ prev.core_context # None
    /\ prev.core_context[1].content # last.content

\* C6: a store_message whose labels are empty, UNCLEAR or otherwise outside
\* PROBLEM_DEFINITION, CONSTRAINT_ADDITION and REFINEMENT appends the
\* message to the turn context and leaves the core and evolving contexts
\* as they were.
C6_UnrecognizedLabels ==
    (last.op = "store_message"
        /\ \A l \in Recognized : ~In(l, last.intent_labels)) =>
        /\ store.core_context = prev.core_context
        /\ store.evolving_context = prev.evolving_context
        /\ AppendedToTurn

\* C6 witness: a user message labelled UNCLEAR was stored into a store that
\* has a core problem and an evolving item.
C6_Witness ==
    /\ last.op = "store_message"
    /\ last.role = "user"
    /\ last.intent_labels = <<"UNCLEAR">>
    /\ prev.core_context # None
    /\ Len(prev.evolving_context) = 1

\* C7: import_state(export_state()) answers True and gives back the store:
\* the same summary, the same statistics and the same items with their
\* labels and timestamps, on the store itself as on a fresh store.
C7_RoundTrip ==
    last.op = "round_trip" =>
        /\ last.result = "True"
        /\ get_context_summary(store) = get_context_summary(prev)
        /\ get_stats(store) = get_stats(prev)
        /\ store = prev
        /\ import_state(HierarchicalContextStore, export_state(prev)) =
              [result |-> "True", store |-> prev]

\* C7 witness: the round trip of a store that store_message calls alone
\* have filled, with a core problem, an evolving item and timestamps with
\* and without microseconds.
C7_Witness ==
    /\ last.op = "round_trip"
    /\ last.was_pure
    /\ prev.core_context # None
    /\ prev.core_context[1].keywords # <<>>
    /\ Len(prev.evolving_context) >= 1
    /\ \E i, j \in 1..Len(prev.turn_context) :
          /\ prev.turn_context[i].timestamp.usec = 0
          /\ prev.turn_context[j].timestamp.usec # 0

\* C8: when import_state answers False, the three tiers are what they were
\* before the call.
C8_FailedImportKeepsState ==
    (last.op = "import_state" /\ last.result = "False") => store = prev

\* C9: import_state answers a boolean for every input and never raises.
C9_ImportNeverRaises ==
    last.op = "import_state" => last.result \in {"True", "False"}

(***************************************************************************)
(* Properties of the session manager.                                      *)
(***************************************************************************)
\* C10: start_session returns an id that was not registered before the
\* call and that this manager has neither returned nor loaded before (ids
\* of ended sessions included), and get_context of it is then an empty
\* store.
C10_StartSessionFresh ==
    last.op = "start_session" =>
        /\ last.session_id \notin before.registered
        /\ last.session_id \notin before.known
        /\ get_context(last.session_id) = Some(HierarchicalContextStore)

\* C10 witness: start_session in a manager that has loaded a session with
\* content and has ended a session before.
C10_Witness ==
    /\ last.op = "start_session"
    /\ before.known \ before.registered # {}
    /\ \E i \in before.registered : _sessions[i] # HierarchicalContextStore

\* C11: end_session(id) returns True exactly when id was registered; then
\* id is registered no more, the directory holds no snapshot of it and a
\* manager constructed over the directory does not register it.  When id
\* was not registered, sessions and directory are what they were.  In
\* both cases a second end_session(id) returns False.
C11_EndSession ==
    last.op = "end_session" =>
        /\ (last.result = "True") <=> (last.session_id \in before.registered)
        /\ last.result = "True" =>
              /\ last.session_id \notin DOMAIN _sessions
              /\ last.session_id \notin DOMAIN files
              /\ last.session_id \notin DOMAIN load_all_sessions(files)
        /\ last.result = "False" =>
              /\ _sessions = before._sessions
              /\ files = before.files
        /\ end_session(_sessions, files, last.session_id).result = "False"

\* C11 witness: end_session of a registered session with content whose
\* snapshot was in the directory.
C11_Witness ==
    /\ last.op = "end_session"
    /\ last.result = "True"
    /\ last.session_id \in DOMAIN before.files
    /\ before._sessions[last.session_id] # HierarchicalContextStore

\* the directory holds the snapshot of an empty store for the id, and a
\* manager constructed over the directory registers the id with an empty
\* store
EmptySnapshotOf(session_id) ==
    /\ session_id \in DOMAIN files
    /\ files[session_id] = export_state(HierarchicalContextStore)
    /\ session_id \in DOMAIN load_all_sessions(files)
    /\ load_all_sessions(files)[session_id] = HierarchicalContextStore

WellFormedItem(v, second) ==
    /\ v.t = "object"
    /\ DOMAIN v.fields = {"content", second, "timestamp", "intent_labels"}
    /\ v.fields.timestamp.t = "string"
    /\ ValidIso(v.fields.timestamp.chars)

\* a snapshot of the persisted format: the three tiers, the core tier
\* null or an item, the other two lists of items and of messages
WellFormed(doc) ==
    /\ doc.t = "object"
    /\ DOMAIN doc.fields =
          {"core_context", "evolving_context", "turn_context"}
    /\ \/ doc.fields.core_context.t = "null"
       \/ WellFormedItem(doc.fields.core_context, "keywords")
    /\ doc.fields.evolving_context.t = "list"
    /\ \A i \in DOMAIN doc.fields.evolving_context.items :
          WellFormedItem(doc.fields.evolving_context.items[i], "keywords")
    /\ doc.fields.turn_context.t = "list"
    /\ \A i \in DOMAIN doc.fields.turn_context.items :
          WellFormedItem(doc.fields.turn_context.items[i], "role")

\* C13: after the construction of a manager every well-formed snapshot of
\* the directory is registered under its file's id with the state that was
\* saved, and no other file of the directory is registered.
C13_StartupLoad ==
    last.op \in {"init", "restart"} =>
        \A i \in DOMAIN files :
            IF WellFormed(files[i])
            THEN /\ i \in DOMAIN _sessions
                 /\ export_state(_sessions[i]) = files[i]
            ELSE i \notin DOMAIN _sessions

\* C14: after a message was stored in a registered session or a state was
\* imported into it, the directory holds the snapshot of the session's
\* store, and a manager constructed over the directory registers the
\* session with that store.
C14_WriteThrough ==
    (/\ last.session_id \in before.registered
     /\ \/ last.op = "session_store_message"
        \/ last.op = "import_context" /\ last.result = "success") =>
        /\ last.session_id \in DOMAIN files
        /\ files[last.session_id] = export_state(_sessions[last.session_id])
        /\ last.session_id \in DOMAIN load_all_sessions(files)
        /\ load_all_sessions(files)[last.session_id]
             = _sessions[last.session_id]

\* C15: when the write of save_session fails, start_session still returns
\* the new id, the id is registered with an empty store and every other
\* session is what it was.
C15_FailedWriteKeepsMemory ==
    (last.op = "start_session" /\ ~last.written) =>
        /\ last.result = Some(last.session_id)
        /\ _sessions = Register(before._sessions, last.session_id,
                                HierarchicalContextStore)

\* C15 witness: start_session whose write failed, in a manager that holds
\* a session with content.
C15_Witness ==
    /\ last.op = "start_session"
    /\ ~last.written
    /\ last.session_id \notin DOMAIN files
    /\ \E i \in before.registered :
          before._sessions[i] # HierarchicalContextStore

\* C16: get_context and get_session_stats of an id that is not registered
\* answer None and leave the registered sessions and the directory as they
\* were.
C16_LookupUnregistered ==
    (/\ last.op \in {"get_context", "get_session_stats"}
     /\ last.session_id \notin before.registered) =>
        /\ last.result = None
        /\ _sessions = before._sessions
        /\ files = before.files

\* C16 witness: get_session_stats of an id that is not registered although
\* the directory holds a file of that name.
C16_Witness ==
    /\ last.op = "get_session_stats"
    /\ last.session_id \notin before.registered
    /\ last.session_id \in DOMAIN files

(***************************************************************************)
(* Properties of the keyword extraction engine.                            *)
(***************************************************************************)
\* C20: extract_keywords returns no term whose document frequency equals
\* the number of documents after the call's update, and on a corpus
\* without documents (new or reset) it returns the empty list.
C20_NoUniversalTerm ==
    last.op = "extract_keywords" =>
        /\ \A i \in DOMAIN last.result :
              DocFreq(engine, last.result[i].keyword)
                  # engine._total_documents
        /\ last.total_before = 0 => last.result = <<>>

\* C20 witness: a call that returns a keyword and leaves out a token of
\* the text that every document so far contains.
C20_Witness ==
    /\ last.op = "extract_keywords"
    /\ last.result # <<>>
    /\ \E i \in DOMAIN _tokenize(last.text) :
          DocFreq(engine, _tokenize(last.text)[i]) = engine._total_documents

(***************************************************************************)
(* Properties of the event loop.                                           *)
(***************************************************************************)
\* the stores of the sessions, those of the ended sessions included
Stores ==
    [id \in DOMAIN _sessions \cup DOMAIN discarded |->
        IF id \in DOMAIN _sessions THEN _sessions[id] ELSE discarded[id]]

\* the requests that are inside store_message on the session
Writers(session_id) ==
    {t \in DOMAIN tasks : /\ tasks[t].session_id = session_id
                          /\ tasks[t].pc \in {"appended", "trimmed"}}

\* the requests whose store_message has completed
Stored == {t \in DOMAIN tasks : tasks[t].result = "ok"}

\* the orders the requests of S can be put in
Orders(S) ==
    {order \in [1..Cardinality(S) -> S] :
        \A i, j \in 1..Cardinality(S) : order[i] = order[j] => i = j}

\* the stores after the store_message calls of the requests of order, made
\* one after the other on the stores sessions from the clock c on
RECURSIVE Replay(_, _, _)
Replay(order, sessions, c) ==
    IF order = <<>> THEN sessions
    ELSE Replay(Tail(order),
                [sessions EXCEPT ![tasks[order[1]].session_id] =
                    store_message(@, c, tasks[order[1]].message,
                                  tasks[order[1]].intent, "user",
                                  Some(tasks[order[1]].keywords))],
                c + ClockReads(tasks[order[1]].intent, "user"))

\* C17: store_message calls of concurrent requests on one session do not
\* interleave: at most one request is inside store_message on a session,
\* and whenever none is, the stores are what the completed calls give when
\* they are made one after the other in some order, from the stores of the
\* construction on; a turn_context is then within max_turn_context.
C17_StoreMessageSerialized ==
    /\ \A id \in DOMAIN Stores : Cardinality(Writers(id)) <= 1
    /\ (\A id \in DOMAIN Stores : Writers(id) = {}) =>
          /\ \E order \in Orders(Stored) :
                Replay(order, [id \in DOMAIN history |-> history[id][1]], 0)
                    = Stores
          /\ \A id \in DOMAIN Stores :
                Len(Stores[id].turn_context) <= max_turn_context

\* two requests on one session, the second begun while the first was in
\* flight, have both stored a problem definition with a refinement in a
\* turn_context that was full
C17_Witness ==
    \E t1, t2 \in Stored :
        /\ t1 # t2
        /\ tasks[t1].session_id = tasks[t2].session_id
        /\ tasks[t2].overlapped
        /\ RoutesToCore(tasks[t1].intent, "user")
        /\ RoutesToEvolving(tasks[t2].intent, "user")
        /\ Len(history[tasks[t1].session_id][1].turn_context)
               = max_turn_context
        /\ Len(Stores[tasks[t1].session_id].evolving_context) = 2

\* the requests whose extract_keywords has updated the corpus
Updated ==
    {t \in DOMAIN tasks : /\ tasks[t].extract \in {"written", "returned"}
                          /\ ~Blank(Words(tasks[t].message))}

\* the tokens of the message of request t
TokensOf(t) ==
    {_tokenize(Words(tasks[t].message))[i] :
        i \in DOMAIN _tokenize(Words(tasks[t].message))}

\* C18: no corpus update of concurrent extract_keywords calls is lost:
\* _total_documents is the number of calls with a text that is not blank
\* which have made their update, and the document frequency of a token is
\* the number of these whose text has the token.
C18_CorpusUpdatesCounted ==
    /\ engine._total_documents = Cardinality(Updated)
    /\ \A w \in DOMAIN engine._document_frequency
                  \cup UNION {TokensOf(t) : t \in DOMAIN tasks} :
          DocFreq(engine, w) = Cardinality({t \in Updated : w \in TokensOf(t)})

\* two requests in flight together have both extracted, and a token of
\* both texts is counted twice
C18_Witness ==
    \E t1, t2 \in DOMAIN tasks :
        /\ t1 # t2
        /\ tasks[t2].overlapped
        /\ tasks[t1].extract = "returned"
        /\ tasks[t2].extract = "returned"
        /\ tasks[t1].message # tasks[t2].message
        /\ engine._total_documents = 2
        /\ \E w \in TokensOf(t1) \cap TokensOf(t2) : DocFreq(engine, w) = 2

\* C19: the summary and the statistics a reader gets while requests are in
\* flight are those of the store as the last completed store_message left
\* it, never of a store between two statements of store_message, and what
\* the summary refers to does not change afterwards: the list it has as
\* core_keywords still holds what it held when the summary was made.
C19_SummaryIsSnapshot ==
    held # None =>
        /\ held[1].summary = get_context_summary(held[1].committed)
        /\ held[1].stats = get_stats(held[1].committed)
        /\ Len(held[1].committed.turn_context) <= max_turn_context
        /\ held[1].core_keywords # 0 =>
              heap[held[1].session_id][held[1].core_keywords]
                  = held[1].summary.core_keywords

\* a summary with the keyword list of a core item was made while a request
\* on the session was in flight, and this request has since replaced the
\* core item: the store's summary is no longer the one that is held
C19_Witness ==
    /\ held # None
    /\ held[1].core_keywords # 0
    /\ \E t \in held[1].during :
          /\ tasks[t].session_id = held[1].session_id
          /\ tasks[t].result = "ok"
          /\ RoutesToCore(tasks[t].intent, "user")
          /\ tasks[t].keywords # held[1].summary.core_keywords
    /\ get_context_summary(Stores[held[1].session_id]) # held[1].summary

(***************************************************************************)
(* Properties of the keyword extraction engine, one call at a time.        *)
(***************************************************************************)
\* the distinct tokens of the text of the last call
LastTokens == {_tokenize(last.text)[i] : i \in DOMAIN _tokenize(last.text)}

\* the counters after the call are those before it with one more document
\* and one more for every distinct token of the text
CountedOnce ==
    /\ engine._total_documents = last.engine_before._total_documents + 1
    /\ \A w \in DOMAIN engine._document_frequency
                  \cup DOMAIN last.engine_before._document_frequency
                  \cup LastTokens :
          DocFreq(engine, w) = DocFreq(last.engine_before, w)
                                 + (IF w \in LastTokens THEN 1 ELSE 0)

\* the list returned is the scoring on the counters after the update
ScoredAfterUpdate ==
    last.result = IF _tokenize(last.text) = <<>> THEN <<>>
                  ELSE ScoreKeywords(engine, last.text, last.top_k)

\* C21 as stated: every extract_keywords call raises total_documents by one
\* and the document frequency of every distinct token of its text by one,
\* changes no other counter, and scores after the update.
C21_CorpusUpdateOnce ==
    last.op = "extract_keywords" => CountedOnce /\ ScoredAfterUpdate

\* C21: an extract_keywords call with a text that is not blank raises
\* total_documents by one and the document frequency of every distinct
\* token of its text by one (a repeated token counts once), changes no
\* other counter, and scores after the update; a call with a blank text
\* returns the empty list and leaves the corpus as it is.
C21_CorpusUpdateOnceNotBlank ==
    last.op = "extract_keywords" =>
        IF Blank(last.text)
        THEN engine = last.engine_before /\ last.result = <<>>
        ELSE CountedOnce /\ ScoredAfterUpdate

\* a call on a corpus with documents, with a text that repeats a token
C21_Witness ==
    /\ last.op = "extract_keywords"
    /\ last.engine_before._total_documents > 0
    /\ Len(_tokenize(last.text)) > Cardinality(LastTokens)
    /\ \E w \in LastTokens : DocFreq(last.engine_before, w) > 0
    /\ last.result # <<>>

\* tf * idf of a token of the text of the last call, on the corpus after it
ScoreOf(w) ==
    [tf |-> _calculate_tf(_tokenize(last.text))[w],
     idf |-> _calculate_idf(engine, w)]

\* where the token first occurs among the tokens of the text
FirstOccurrence(w) ==
    CHOOSE i \in DOMAIN _tokenize(last.text) :
        /\ _tokenize(last.text)[i] = w
        /\ \A j \in 1..(i - 1) : _tokenize(last.text)[j] # w

\* a comes before b: a higher score, or the same score and an earlier
\* first occurrence
Ahead(a, b) ==
    \/ Greater(ScoreOf(a), ScoreOf(b))
    \/ /\ ~Greater(ScoreOf(b), ScoreOf(a))
       /\ FirstOccurrence(a) < FirstOccurrence(b)

\* the tokens extract_keywords has returned
Returned == {last.result[i].keyword : i \in DOMAIN last.result}

\* C22: extract_keywords(text, top_k) returns at most top_k entries, each a
\* token of the text with its score, which is above 0; they are ordered by
\* score, highest first, entries of the same score in the order of their
\* first occurrence in the text; no token left out comes before a returned
\* one in this order, and a token with a score above 0 is left out only
\* when top_k entries are returned; a blank text returns the empty list.
C22_TopKeywords ==
    last.op = "extract_keywords" =>
        /\ Blank(last.text) => last.result = <<>>
        /\ Len(last.result) <= last.top_k
        /\ \A i \in DOMAIN last.result :
              /\ last.result[i].keyword \in LastTokens
              /\ last.result[i].score = ScoreOf(last.result[i].keyword)
              /\ Positive(last.result[i].score)
        /\ \A i, j \in DOMAIN last.result :
              i < j => Ahead(last.result[i].keyword, last.result[j].keyword)
        /\ \A w \in LastTokens \ Returned :
              /\ \A i \in DOMAIN last.result :
                    ~Ahead(w, last.result[i].keyword)
              /\ Positive(ScoreOf(w)) => Len(last.result) = last.top_k

\* a call that returns top_k entries and leaves out a token with the score
\* of the last entry returned, which occurs later in the text
C22_Witness ==
    /\ last.op = "extract_keywords"
    /\ Len(last.result) = last.top_k
    /\ \E w \in LastTokens \ Returned :
          /\ Positive(ScoreOf(w))
          /\ ~Greater(last.result[Len(last.result)].score, ScoreOf(w))

\* no counter of the corpus b is below that of the corpus a
NotBelow(a, b) ==
    /\ b._total_documents >= a._total_documents
    /\ \A w \in DOMAIN a._document_frequency : DocFreq(b, w) >= DocFreq(a, w)
    /\ Len(b._document_corpus) >= Len(a._document_corpus)

\* C23: the corpus statistics go down through reset_corpus only: after
\* extract_keywords, get_corpus_stats, store_message, start_session and
\* end_session total_documents and every document frequency are at least
\* what they were before (ending a session takes nothing out of the
\* corpus), and after reset_corpus total_documents is 0 and no term is left.
C23_CorpusMonotone ==
    /\ last.op \in {"extract_keywords", "get_corpus_stats", "start_session",
                    "session_store_message", "end_session"} =>
          NotBelow(last.engine_before, engine)
    /\ last.op = "reset_corpus" =>
          /\ engine._total_documents = 0
          /\ DOMAIN engine._document_frequency = {}
          /\ engine._document_corpus = <<>>

\* a session has been ended on a server whose corpus has documents, and
\* the documents are counted as before
C23_Witness ==
    /\ last.op = "end_session"
    /\ last.result = "True"
    /\ engine._total_documents > 0
    /\ DOMAIN engine._document_frequency # {}

(***************************************************************************)
(* Properties of the prompt synthesis.                                     *)
(***************************************************************************)
\* C24: synthesize_prompt, get_context_stats and create_debug_info read
\* the store and leave it as it is: the three tiers after the call are
\* the tiers before it.  What they return is made of the store and the
\* message only; the engine has no field but the store it is bound to.
C24_PureReads ==
    last.op \in {"synthesize_prompt", "get_context_stats",
                 "create_debug_info"} =>
        /\ store.core_context = prev.core_context
        /\ store.evolving_context = prev.evolving_context
        /\ store.turn_context = prev.turn_context

\* the debug information of a store with content in every tier
C24_Witness ==
    /\ last.op = "create_debug_info"
    /\ prev.core_context # None
    /\ prev.evolving_context # <<>>
    /\ prev.turn_context # <<>>
    /\ last.result.output.prompt_length > 0

\* where the piece first occurs in the prompt
Position(prompt, piece) ==
    CHOOSE i \in DOMAIN prompt :
        prompt[i] = piece /\ \A j \in 1..(i - 1) : prompt[j] # piece

\* the text of the prompt from n pieces after the heading to the blank
\* line before the next heading
Section(prompt, heading, n, next) ==
    SubSeq(prompt, Position(prompt, heading) + n,
           Position(prompt, next) - 3)

MissionSection(prompt) == Section(prompt, "# Mission", 5, "# Constraints")

ConstraintsSection(prompt) ==
    Section(prompt, "# Constraints", 4, "# Recent Conversation")

RecentSection(prompt) ==
    Section(prompt, "# Recent Conversation", 2, "# User's Current Message")

\* C25: in the prompt of synthesize_prompt the Mission section is the
\* placeholder exactly when there is no core item, the Constraints section
\* is the placeholder exactly when there is no evolving item and the Recent
\* Conversation section is the placeholder exactly when turn_context is
\* empty, each whatever the other two tiers hold; on a new store and on a
\* store after clear_all the three sections are the three placeholders.
C25_Placeholders ==
    last.op = "synthesize_prompt" =>
        /\ MissionSection(last.result) = NoProblemYet
              <=> prev.core_context = None
        /\ ConstraintsSection(last.result) = NoConstraintsYet
              <=> prev.evolving_context = <<>>
        /\ RecentSection(last.result) = DialogueStarts
              <=> prev.turn_context = <<>>

\* the prompt of a store that has a core item, of empty content, and
\* messages, but no evolving item
C25_Witness ==
    /\ last.op = "synthesize_prompt"
    /\ prev.core_context # None
    /\ prev.core_context[1].content = ""
    /\ prev.evolving_context = <<>>
    /\ prev.turn_context # <<>>
    /\ ConstraintsSection(last.result) = NoConstraintsYet
    /\ MissionSection(last.result) # NoProblemYet

\* the first three keywords of every evolving item of the store, item by
\* item
Candidates(s) ==
    TopThree(s.evolving_context)

\* where the keyword is first among the candidates
FirstSeen(s, w) ==
    CHOOSE i \in DOMAIN Candidates(s) :
        /\ Candidates(s)[i] = w
        /\ \A j \in 1..(i - 1) : Candidates(s)[j] # w

\* the keywords a sequence lists
Range(words) == {words[i] : i \in DOMAIN words}

\* the keyword line lists these keywords: at most 8, none twice, each a
\* candidate, in the order they are first seen, and of two candidates the
\* one seen later is listed only if the one seen earlier is
Listed(s, words) ==
    /\ Len(words) <= 8
    /\ Len(words) = 8 \/ Range(words) = Range(Candidates(s))
    /\ \A i \in DOMAIN words : words[i] \in Range(Candidates(s))
    /\ \A i, j \in DOMAIN words :
          i < j => FirstSeen(s, words[i]) < FirstSeen(s, words[j])
    /\ \A w \in Range(Candidates(s)) \ Range(words) :
          \A i \in DOMAIN words : FirstSeen(s, words[i]) < FirstSeen(s, w)

\* the candidates in the order they are first seen, up to the eighth
InOrderSeen(s) ==
    [i \in 1..(IF Cardinality(Range(Candidates(s))) < 8
               THEN Cardinality(Range(Candidates(s))) ELSE 8) |->
        CHOOSE w \in Range(Candidates(s)) :
            Cardinality({v \in Range(Candidates(s)) :
                            FirstSeen(s, v) < FirstSeen(s, w)}) = i - 1]

\* the bullet lines of the evolving items, oldest first
Bullets(s) ==
    join(<<"\n">>, [i \in DOMAIN s.evolving_context |->
                       <<"-", " ">> \o Chars(s.evolving_context[i].content)])

Counts(stats) ==
    <<stats.has_core_problem, stats.evolving_items_count,
      stats.recent_messages_count>>

\* C27: the statistics of the prompt engine and of the session manager
\* are those of the store: has_core_problem, evolving_items_count and
\* recent_messages_count of get_context_stats and of get_session_stats
\* equal those of get_stats, recent_messages_count being the number of
\* messages in turn_context.
C27_StatsAgree ==
    /\ get_stats(store).recent_messages_count = Len(store.turn_context)
    /\ Counts(get_context_stats(store).result) = Counts(get_stats(store))
    /\ Counts(SessionStats(PromptSessionId, store)) = Counts(get_stats(store))

\* f"{msg.role}: {msg.content}" of every message
TextOf(messages) ==
    [i \in DOMAIN messages |->
        Chars(messages[i].role) \o <<":", " ">> \o Chars(messages[i].content)]

\* the last min(4, len(turn_context)) entries of turn_context
Recent(s) ==
    LET n == IF Len(s.turn_context) < 4 THEN Len(s.turn_context) ELSE 4
    IN SubSeq(s.turn_context, Len(s.turn_context) - n + 1,
              Len(s.turn_context))

\* the contents of evolving_context in insertion order
ItemsInOrder(s) ==
    /\ Len(get_context_summary(s).evolving_items) = Len(s.evolving_context)
    /\ \A i \in DOMAIN s.evolving_context :
          get_context_summary(s).evolving_items[i]
              = s.evolving_context[i].content

\* C28 as stated: recent_conversation is one line "{role}: {content}" per
\* message for the last min(4, len(turn_context)) entries of turn_context,
\* oldest first, and is empty exactly when turn_context is empty;
\* evolving_items lists the contents of evolving_context in insertion
\* order.
C28_RecentConversation ==
    /\ get_context_summary(store).recent_conversation
           = join(<<"\n">>, TextOf(Recent(store)))
    /\ store.turn_context # <<>> =>
           Len(split(get_context_summary(store).recent_conversation))
               = Len(Recent(store))
    /\ get_context_summary(store).recent_conversation = <<>>
           <=> store.turn_context = <<>>
    /\ ItemsInOrder(store)

\* C28, amended: recent_conversation is the texts "{role}: {content}" of
\* the last min(4, len(turn_context)) entries of turn_context, oldest
\* first, joined by line feeds, without the white space at the two ends of
\* the whole, and is empty exactly when turn_context is empty;
\* evolving_items lists the contents of evolving_context in insertion
\* order.
C28_RecentConversationStripped ==
    /\ get_context_summary(store).recent_conversation
           = strip(join(<<"\n">>, TextOf(Recent(store))))
    /\ get_context_summary(store).recent_conversation = <<>>
           <=> store.turn_context = <<>>
    /\ ItemsInOrder(store)

C28_Witness ==
    /\ last.op = "store_message"
    /\ Len(store.turn_context) > 4
    /\ store.turn_context[Len(store.turn_context)].content \in {"", " "}
    /\ \E i \in DOMAIN Recent(store) : Recent(store)[i].content = "l1\nl2"
    /\ Len(store.evolving_context) >= 2
    /\ store.evolving_context[1].content # store.evolving_context[2].content

\* C29: export_context(id) for a registered session, a freshly started one
\* with no core problem included, returns success with data equal to the
\* parsed export_state() of its store, and for an unregistered id the
\* SESSION_NOT_FOUND result; the stores and the session set are left
\* unchanged.
C29_ExportContext ==
    last.op = "export_context" =>
        /\ IF last.session_id \in before.registered
           THEN /\ last.result.success
                /\ last.result.data
                       = Some(export_state(
                                  before._sessions[last.session_id]))
           ELSE /\ ~last.result.success
                /\ last.result.error_code = "SESSION_NOT_FOUND"
                /\ last.result.data = None
        /\ _sessions = before._sessions
        /\ DOMAIN _sessions = before.registered
        /\ files = before.files

\* C29 without the fresh session: what holds of export_context
C29_ExportContextWithCore ==
    last.op = "export_context" =>
        /\ IF last.session_id \notin before.registered
           THEN last.result.error_code = "SESSION_NOT_FOUND"
           ELSE IF before._sessions[last.session_id].core_context = None
           THEN last.result.error_code = "EXPORT_FAILED"
           ELSE /\ last.result.success
                /\ last.result.data
                       = Some(export_state(
                                  before._sessions[last.session_id]))
        /\ _sessions = before._sessions
        /\ files = before.files

\* the requests made on a session that was registered: their session is
\* the one they named, not one started for them
OnRegistered ==
    {t \in DOMAIN tasks : tasks[t].session_id \in RequestSessionIds}

\* the requests whose message has been appended to turn_context
Appended ==
    {t \in DOMAIN tasks : \/ tasks[t].pc \in {"appended", "trimmed"}
                          \/ tasks[t].result = "ok"}

\* the message is the one request t stores: its text, role user and the
\* labels the classifier returned
Carries(msg, t) ==
    /\ msg.content = tasks[t].message
    /\ msg.role = "user"
    /\ msg.intent_labels = tasks[t].intent

\* the requests that store the same message on the same session as t
Alike(t) ==
    {u \in Appended : /\ tasks[u].session_id = tasks[t].session_id
                      /\ tasks[u].message = tasks[t].message
                      /\ tasks[u].intent = tasks[t].intent}

\* the item holds the text of request t and the keywords extracted for it
ItemOf(item, t) ==
    /\ item.content = tasks[t].message
    /\ item.keywords = tasks[t].keywords
    /\ item.intent_labels = tasks[t].intent

\* request t has classified, extracted and stored: its message is in the
\* turn context of its session once, and in the tiers its labels route to
Orchestrated(t) ==
    LET s == Stores[tasks[t].session_id]
    IN /\ tasks[t].classify = "returned"
       /\ tasks[t].extract = "returned"
       /\ tasks[t].result = "ok"
       /\ Cardinality({i \in DOMAIN s.turn_context :
                          Carries(s.turn_context[i], t)})
              = Cardinality(Alike(t))
       /\ RoutesToCore(tasks[t].intent, "user") =>
             /\ s.core_context # None
             /\ \E u \in Stored :
                   /\ tasks[u].session_id = tasks[t].session_id
                   /\ RoutesToCore(tasks[u].intent, "user")
                   /\ ItemOf(s.core_context[1], u)
       /\ RoutesToEvolving(tasks[t].intent, "user") =>
             \E i \in DOMAIN s.evolving_context :
                 ItemOf(s.evolving_context[i], t)

\* C30: when process_user_message on a registered session returns, the
\* message has been appended exactly once to the turn context of the
\* session with role user and the labels the classifier returned, and
\* routed to Core/Evolving by those labels with the keywords extracted for
\* that message.
C30_Orchestrated ==
    \A t \in OnRegistered : tasks[t].pc = "done" => Orchestrated(t)

\* C30 for the requests whose classification returned labels, and the
\* others: a request whose await of classify_intent raised returns the
\* error envelope with nothing stored
C30_OrchestratedUnlessRaised ==
    \A t \in OnRegistered :
        tasks[t].pc = "done" =>
            IF tasks[t].classify = "returned" THEN Orchestrated(t)
            ELSE /\ tasks[t].result = "ERROR"
                 /\ t \notin Appended

\* the requests that have returned the error envelope
Failed ==
    {t \in DOMAIN tasks : tasks[t].pc = "done" /\ tasks[t].result # "ok"}

\* C31: a process_user_message call of which a step has failed returns the
\* error envelope (intent ["ERROR"], no keywords) and does not raise; it
\* does not unregister its session, which is registered unless an
\* end_session call has ended it, and it leaves the three tiers alone:
\* when no request is inside store_message on the session, the store is as
\* the last completed store_message left it, or as it was constructed.
C31_ErrorEnvelope ==
    \A t \in DOMAIN tasks :
        (tasks[t].pc = "done" /\ tasks[t].classify = "raised") =>
            /\ tasks[t].result = "ERROR"
            /\ tasks[t].response
                   = Some([intent |-> <<"ERROR">>, keyword_analysis |-> <<>>,
                           session_id |-> tasks[t].session_id])
            /\ tasks[t].session_id \in DOMAIN _sessions \cup DOMAIN discarded
            /\ Writers(tasks[t].session_id) = {} =>
                  Stores[tasks[t].session_id]
                      = history[tasks[t].session_id]
                               [Len(history[tasks[t].session_id])]

\* a request has failed on a registered session in which another request,
\* in flight together with it, has stored a problem definition
C31_Witness ==
    \E t \in Failed, u \in Stored :
        /\ tasks[t].session_id = tasks[u].session_id
        /\ tasks[t].session_id \in DOMAIN _sessions
        /\ tasks[u].overlapped
        /\ Stores[tasks[t].session_id].core_context # None

\* C32: clear_all gives a store equal to a new one: core_context is None,
\* evolving_context and turn_context are empty, get_context_summary() and
\* get_stats() are those of a new HierarchicalContextStore, and a second
\* clear_all changes nothing.
C32_ClearAllFresh ==
    last.op = "clear_all" =>
        /\ store.core_context = None
        /\ store.evolving_context = <<>>
        /\ store.turn_context = <<>>
        /\ store = HierarchicalContextStore
        /\ get_context_summary(store)
               = get_context_summary(HierarchicalContextStore)
        /\ get_stats(store) = get_stats(HierarchicalContextStore)
        /\ clear_all(store) = store
        /\ clear_all(clear_all(prev)) = clear_all(prev)

\* clear_all was called on a store with a core problem, evolving items and
\* messages
C32_Witness ==
    /\ last.op = "clear_all"
    /\ prev.core_context # None
    /\ prev.evolving_context # <<>>
    /\ prev.turn_context # <<>>

\* the registered sessions other than A are registered as before, with the
\* tiers they had
OthersKept(A) ==
    \A B \in before.registered \ {A} :
        /\ B \in DOMAIN _sessions
        /\ _sessions[B] = before._sessions[B]

\* the snapshots of the sessions other than A are as before
OtherFilesKept(A) ==
    \A B \in (DOMAIN before.files \cup DOMAIN files) \ {A} :
        /\ B \in DOMAIN before.files
        /\ B \in DOMAIN files
        /\ files[B] = before.files[B]

\* C33: sessions are isolated: store_message, import_state or clear_all on
\* the store of session A leaves the three tiers of every other registered
\* session B as they were, and ending A leaves B registered with its state
\* and its snapshot as they were.
C33_SessionsIsolated ==
    /\ last.op \in {"session_store_message", "import_context",
                    "session_clear_all"} => OthersKept(last.session_id)
    /\ last.op = "end_session" =>
          /\ OthersKept(last.session_id)
          /\ OtherFilesKept(last.session_id)

\* a message was stored in a session while another session with content
\* and a snapshot was registered
C33_Witness ==
    /\ last.op = "session_store_message"
    /\ last.session_id \in before.registered
    /\ \E B \in before.registered \ {last.session_id} :
          /\ before._sessions[B].turn_context # <<>>
          /\ B \in DOMAIN before.files
    /\ _sessions[last.session_id] # before._sessions[last.session_id]

\* the sequence a is the beginning of the sequence b, item for item: same
\* content, keywords, labels and timestamp
IsPrefix(a, b) ==
    /\ Len(a) <= Len(b)
    /\ \A i \in DOMAIN a : b[i] = a[i]

\* C34: the evolving context is append-only and its items are never
\* edited: after a store_message call the evolving_context of before the
\* call is the beginning of the one after it, with at most one item more,
\* and only clear_all or import_state remove or replace evolving items.
C34_EvolvingAppendOnly ==
    /\ last.op = "store_message" =>
          /\ IsPrefix(prev.evolving_context, store.evolving_context)
          /\ Len(store.evolving_context) <= Len(prev.evolving_context) + 1
    /\ ~IsPrefix(prev.evolving_context, store.evolving_context) =>
          last.op \in {"clear_all", "import_state", "round_trip"}

\* a message was added to an evolving context that had an item of the same
\* content
C34_Witness ==
    /\ last.op = "store_message"
    /\ Len(store.evolving_context) = Len(prev.evolving_context) + 1
    /\ \E i \in DOMAIN prev.evolving_context :
          /\ prev.evolving_context[i].content = last.content
          /\ prev.evolving_context[i] # store.evolving_context[
                                            Len(store.evolving_context)]

\* C35: a failed import_context fails closed: when it does not return
\* success (text that is not JSON, or a snapshot import_state rejects), the
\* registered sessions, the tiers of every session and the snapshots are
\* what they were before the call, also when the session_id given was not
\* registered.
C35_ImportContextFailsClosed ==
    (last.op = "import_context" /\ last.result # "success") =>
        /\ DOMAIN _sessions = before.registered
        /\ _sessions = before._sessions
        /\ files = before.files

\* the requests that named a session that was not registered: a session
\* was started for them, under an id that is none of those requests name
Started ==
    {t \in DOMAIN tasks : tasks[t].session_id \notin RequestSessionIds}

\* C36 without the snapshot and the processing, what holds of the calls
\* that name a session that is not registered: each has a session of its
\* own under an id that was not in use, registered unless an end_session
\* call has ended it, and what the call returns names it; the sessions are
\* those loaded at the start and these, so the id that was named is never
\* registered
C36_NewSessionStarted ==
    /\ \A t, u \in Started : t # u => tasks[t].session_id # tasks[u].session_id
    /\ \A t \in Started :
          /\ tasks[t].session_id \in used
          /\ tasks[t].pc = "done" =>
                tasks[t].response[1].session_id = tasks[t].session_id
    /\ DOMAIN _sessions \cup DOMAIN discarded
           = DOMAIN ServerDirs[1] \cup {tasks[t].session_id : t \in Started}

\* C36: a process_user_message call with a session_id that is not
\* registered starts a session under a new id, processes the message in it
\* and reports the new id; the id given is never registered, so every such
\* call adds one registered session and one snapshot.
C36_NewSessionPerCall ==
    /\ C36_NewSessionStarted
    /\ \A t \in Started :
          /\ tasks[t].session_id \in DOMAIN _sessions =>
                tasks[t].session_id \in DOMAIN files
          /\ tasks[t].pc = "done" => Orchestrated(t)

C37_SuccessMeansStoredUnlessEnded ==
    \A t \in DOMAIN tasks :
        (tasks[t].pc = "done" /\ tasks[t].result = "ok") =>
            /\ tasks[t].registered \/ tasks[t].session_id \in DOMAIN discarded
            /\ \E i \in DOMAIN Stores[tasks[t].session_id].turn_context :
                  Carries(Stores[tasks[t].session_id].turn_context[i], t)

\* the ids list_sessions has to list after the last operation: those
\* loaded when the manager was constructed, and from then on those listed
\* before the operation with the id start_session has returned and without
\* the id end_session has ended
Active ==
    CASE last.op \in {"init", "restart"} -> DOMAIN load_all_sessions(files)
      [] last.op \in {"start_session", "import_context"} ->
            before.registered \cup {last.session_id}
      [] last.op = "end_session" -> before.registered \ {last.session_id}
      [] OTHER -> before.registered

\* C38: after any sequence of calls list_sessions() holds exactly the ids
\* loaded at startup or returned by start_session that have not been ended
\* since, each once, and get_session_count() is its length.
C38_ListSessions ==
    /\ {list_sessions(_sessions)[i] : i \in DOMAIN list_sessions(_sessions)}
           = Active
    /\ \A i, j \in DOMAIN list_sessions(_sessions) :
          list_sessions(_sessions)[i] = list_sessions(_sessions)[j] => i = j
    /\ get_session_count(_sessions) = Len(list_sessions(_sessions))
    /\ Active \subseteq known

\* after a start_session, a session was ended and two others stay listed
C38_Witness ==
    /\ last.op = "end_session"
    /\ last.result = "True"
    /\ ops = 2
    /\ \E id \in DOMAIN _sessions : id \notin DOMAIN files
    /\ get_session_count(_sessions) >= 2

\* C39: with extract_keywords and reset_corpus called one at a time, every
\* term recorded in the corpus has 1 <= document_frequency <= total_documents,
\* so that the idf of a recorded term is the logarithm of a quotient that
\* is defined and at least 1: never a division by zero, never negative.
C39_DocumentFrequencyBounds ==
    \A w \in DOMAIN engine._document_frequency :
        /\ 1 <= DocFreq(engine, w)
        /\ DocFreq(engine, w) <= engine._total_documents
        /\ _calculate_idf(engine, w)[2] >= 1
        /\ _calculate_idf(engine, w)[1] >= _calculate_idf(engine, w)[2]

\* the corpus has two documents, a term is in both and another in one of
\* them only
C39_Witness ==
    /\ last.op = "extract_keywords"
    /\ engine._total_documents = 2
    /\ last.total_before = 1
    /\ \E w \in DOMAIN engine._document_frequency :
          DocFreq(engine, w) = engine._total_documents
    /\ \E w \in DOMAIN engine._document_frequency : DocFreq(engine, w) = 1

\* the items of a tier of the snapshot, in the order of the snapshot; none
\* when the snapshot has no such tier
TierOf(snapshot, tier) ==
    Elements(Get(snapshot.fields, tier, JList(<<>>)))

\* the store holds what the snapshot holds and nothing else
HoldsExactly(s, snapshot) ==
    /\ s.core_context
           = IF Truthy(Get(snapshot.fields, "core_context", JNull))
             THEN Some(ItemFromJson(snapshot.fields.core_context))
             ELSE None
    /\ Len(s.evolving_context) = Len(TierOf(snapshot, "evolving_context"))
    /\ \A i \in DOMAIN s.evolving_context :
          s.evolving_context[i]
              = ItemFromJson(TierOf(snapshot, "evolving_context")[i])
    /\ Len(s.turn_context) = Len(TierOf(snapshot, "turn_context"))
    /\ \A i \in DOMAIN s.turn_context :
          s.turn_context[i]
              = MessageFromJson(TierOf(snapshot, "turn_context")[i])

\* C40: an import_state that answers True replaces the whole state of the
\* store: the three tiers hold exactly the items of the snapshot, in its
\* order, and nothing of what the store held, also when the core of the
\* snapshot is null or a tier is missing in it.
C40_ImportReplaces ==
    /\ (last.op = "import_state" /\ last.result = "True") =>
          HoldsExactly(store, Snapshots[last.snapshot])
    /\ (last.op = "round_trip" /\ last.result = "True") =>
          HoldsExactly(store, export_state(prev))

\* a snapshot with a null core and without the evolving tier was imported
\* into a store that had a core problem, evolving items and messages
C40_Witness ==
    /\ last.op = "import_state"
    /\ last.result = "True"
    /\ "core_context" \in DOMAIN Snapshots[last.snapshot].fields
    /\ ~Truthy(Snapshots[last.snapshot].fields.core_context)
    /\ "evolving_context" \notin DOMAIN Snapshots[last.snapshot].fields
    /\ prev.core_context # None
    /\ prev.evolving_context # <<>>
    /\ prev.turn_context # <<>>

====
